---- MODULE Spec2Model ----
(***************************************************************************)
(* Sentiment aggregation engine of the finance repository:                 *)
(* DataAggregationService (data-aggregation.service.ts), SentimentUtils    *)
(* (sentiment.utils.ts), DataCollectionUtils (data-collection.utils.ts)    *)
(* over the market-data and sentiment-history stores.                      *)
(*                                                                         *)
(* The aggregation computes in JavaScript numbers, i.e. IEEE-754 binary64. *)
(* The first part of the module is that arithmetic: a double is a record   *)
(* [s, m, e] of value s * m * 2^e whose mantissa m has exactly 53 bits and *)
(* is held as 14-bit limbs, least significant first (the model checker's   *)
(* integers have 32 bits).  Results are rounded to nearest, ties to even.  *)
(* NaN is the record with sign 0; the infinities are not represented.      *)
(***************************************************************************)
EXTENDS Integers, Sequences, FiniteSets

\* --------------------------------------------------------------------------
\* Natural numbers of arbitrary size as sequences of limbs
\* --------------------------------------------------------------------------
LimbBits == 14
MantBits == 53

Pow2(k) == <<1, 2, 4, 8, 16, 32, 64, 128, 256, 512, 1024, 2048, 4096, 8192, 16384>>[k + 1]

Base == Pow2(LimbBits)

MaxOf(a, b) == IF a >= b THEN a ELSE b
MinOf(a, b) == IF a <= b THEN a ELSE b

Limb(a, i) == IF i >= 1 /\ i <= Len(a) THEN a[i] ELSE 0

RECURSIVE TopIndex(_, _)
TopIndex(a, i) == IF i = 0 THEN 0 ELSE IF a[i] # 0 THEN i ELSE TopIndex(a, i - 1)

BigTrim(a) == SubSeq(a, 1, TopIndex(a, Len(a)))

BigIsZero(a) == TopIndex(a, Len(a)) = 0

RECURSIVE Carry(_, _, _)
Carry(cols, i, c) ==
  IF i > Len(cols)
  THEN IF c = 0 THEN <<>> ELSE <<c % Base>> \o Carry(cols, i, c \div Base)
  ELSE LET t == cols[i] + c IN <<t % Base>> \o Carry(cols, i + 1, t \div Base)

BigFromInt(n) == Carry(<<n>>, 1, 0)

BigAdd(a, b) ==
  Carry([i \in 1..MaxOf(Len(a), Len(b)) |-> Limb(a, i) + Limb(b, i)], 1, 0)

\* a - b for a >= b
RECURSIVE Borrow(_, _, _, _)
Borrow(a, b, i, c) ==
  IF i > Len(a) THEN <<>>
  ELSE LET t == a[i] - Limb(b, i) - c
       IN IF t < 0 THEN <<t + Base>> \o Borrow(a, b, i + 1, 1)
                   ELSE <<t>> \o Borrow(a, b, i + 1, 0)

BigSub(a, b) == BigTrim(Borrow(a, b, 1, 0))

\* -1, 0, 1 as a < b, a = b, a > b
RECURSIVE CmpFrom(_, _, _)
CmpFrom(a, b, i) ==
  IF i = 0 THEN 0
  ELSE IF Limb(a, i) < Limb(b, i) THEN -1
  ELSE IF Limb(a, i) > Limb(b, i) THEN 1
  ELSE CmpFrom(a, b, i - 1)

BigCmp(a, b) == CmpFrom(a, b, MaxOf(Len(a), Len(b)))

RECURSIVE ColSum(_, _, _, _)
ColSum(a, b, k, i) ==
  IF i > Len(a) \/ i > k THEN 0
  ELSE Limb(a, i) * Limb(b, k - i + 1) + ColSum(a, b, k, i + 1)

\* operands of at most four limbs, so that a column sum stays below 2^31
BigMul(a, b) ==
  IF Len(a) = 0 \/ Len(b) = 0 THEN <<>>
  ELSE BigTrim(Carry([k \in 1..(Len(a) + Len(b) - 1) |-> ColSum(a, b, k, 1)], 1, 0))

BigShl(a, s) ==
  LET q == s \div LimbBits
      r == s % LimbBits
  IN  [i \in 1..q |-> 0] \o Carry([i \in 1..Len(a) |-> a[i] * Pow2(r)], 1, 0)

BigShr(a, s) ==
  LET q == s \div LimbBits
      r == s % LimbBits
      n == Len(a) - q
  IN  IF n <= 0 THEN <<>>
      ELSE BigTrim([i \in 1..n |->
             (a[q + i] \div Pow2(r)) + (Limb(a, q + i + 1) % Pow2(r)) * Pow2(LimbBits - r)])

\* the number of binary digits of a limb
IntBitLen(n) == Cardinality({k \in 0..LimbBits : Pow2(k) <= n})

BigBitLen(a) ==
  LET t == TopIndex(a, Len(a))
  IN  IF t = 0 THEN 0 ELSE LimbBits * (t - 1) + IntBitLen(a[t])

\* bit i of a, bit 0 the least significant
BigBit(a, i) == (Limb(a, i \div LimbBits + 1) \div Pow2(i % LimbBits)) % 2

\* a mod 2^s = 0
BigLowZero(a, s) ==
  LET q == s \div LimbBits
      r == s % LimbBits
  IN  /\ \A i \in 1..MinOf(q, Len(a)) : a[i] = 0
      /\ Limb(a, q + 1) % Pow2(r) = 0

\* the value of a number below 2^28
BigToInt(a) == Limb(a, 1) + Base * Limb(a, 2)

BigMulSmall(a, k) == BigTrim(Carry([i \in 1..Len(a) |-> a[i] * k], 1, 0))

\* Long division in base 2^14 of a remainder r < d by a divisor d of 53 bits
\* (four limbs): the next quotient limb is floor(r * Base / d).  The quotient
\* of the leading limbs, floor((r4 * Base + r3) / (d4 + 1)), is at most 18
\* below it; the limb is the one candidate c with c * d <= r * Base < (c+1) * d.
\* (Intermediate values are passed as operator arguments.)
QuotientLimb(rb, d, est) ==
  CHOOSE c \in est..(est + 18) :
    /\ BigCmp(BigMulSmall(d, c), rb) <= 0
    /\ BigCmp(BigMulSmall(d, c + 1), rb) > 0

DivLimbWith(rb, d, q) == [q |-> q, r |-> BigSub(rb, BigMulSmall(d, q))]

DivLimbShifted(rb, d) ==
  DivLimbWith(rb, d,
    QuotientLimb(rb, d, (Limb(rb, 5) * Base + Limb(rb, 4)) \div (Limb(d, 4) + 1)))

DivLimb(r, d) == DivLimbShifted(<<0>> \o r, d)

\* the k limbs of floor(r * Base^k / d), most significant first in the result's
\* q, and the remainder r
RECURSIVE LongDiv(_, _, _)
LongDivNext(c, rest) == [q |-> <<c.q>> \o rest.q, r |-> rest.r]

LongDivStep(c, d, k) == LongDivNext(c, LongDiv(c.r, d, k - 1))

LongDiv(r, d, k) ==
  IF k = 0 THEN [q |-> <<>>, r |-> r]
  ELSE LongDivStep(DivLimb(r, d), d, k)

\* floor(n * 2^56 / d) and whether the division is inexact, for n < 2d
Reverse(a) == [i \in 1..Len(a) |-> a[Len(a) + 1 - i]]

BigDivPack(ld, top) ==
  [quot    |-> BigTrim(Reverse(<<top>> \o ld.q)),
   inexact |-> ~BigIsZero(ld.r)]

BigDivScaled(n, d) ==
  IF BigCmp(n, d) >= 0
  THEN BigDivPack(LongDiv(BigSub(n, d), d, 4), 1)
  ELSE BigDivPack(LongDiv(n, d, 4), 0)

\* --------------------------------------------------------------------------
\* IEEE-754 binary64 (the JavaScript number type): finite values and NaN
\* --------------------------------------------------------------------------
FZero == [s |-> 1, m |-> <<>>, e |-> 0]

FIsZero(x) == Len(x.m) = 0

\* NaN: every arithmetic operation on it yields it, every comparison with it
\* is false
NaN == [s |-> 0, m |-> <<1>>, e |-> 0]

isNaN(x) == x.s = 0

\* s * (N + d) * 2^e with 0 <= d < 1 and sticky = (d # 0), rounded to 53 bits,
\* to nearest and ties to even.  q is N without its sh lowest bits: it goes up
\* by one when the bits dropped are more than half, or half and q is odd.
RoundUp(N, sh, q, sticky) ==
  /\ BigBit(N, sh - 1) = 1
  /\ (sticky \/ ~BigLowZero(N, sh - 1) \/ BigBit(q, 0) = 1)

RoundFinish(s, q1, e) ==
  IF BigBitLen(q1) > MantBits
  THEN [s |-> s, m |-> BigShr(q1, 1), e |-> e + 1]
  ELSE [s |-> s, m |-> q1, e |-> e]

RoundShifted(s, N, e, sticky, sh, q) ==
  RoundFinish(s, IF RoundUp(N, sh, q, sticky) THEN BigAdd(q, <<1>>) ELSE q, e + sh)

\* L is the number of bits of N
RoundBits(s, N, e, sticky, L) ==
  IF L = 0 THEN FZero
  ELSE IF L <= MantBits
  THEN [s |-> s, m |-> BigTrim(BigShl(N, MantBits - L)), e |-> e - (MantBits - L)]
  ELSE RoundShifted(s, N, e, sticky, L - MantBits, BigShr(N, L - MantBits))

RoundPack(s, N, e, sticky) == RoundBits(s, N, e, sticky, BigBitLen(N))

FromInt(n) == IF n >= 0 THEN RoundPack(1, BigFromInt(n), 0, FALSE)
                        ELSE RoundPack(-1, BigFromInt(-n), 0, FALSE)

FNeg(x) == IF FIsZero(x) THEN x ELSE [x EXCEPT !.s = -x.s]

FMul(x, y) ==
  IF isNaN(x) \/ isNaN(y) THEN NaN
  ELSE IF FIsZero(x) \/ FIsZero(y) THEN FZero
  ELSE RoundPack(x.s * y.s, BigMul(x.m, y.m), x.e + y.e, FALSE)

FDivPack(x, y, d) == RoundPack(x.s * y.s, d.quot, x.e - y.e - 4 * LimbBits, d.inexact)

\* y # 0: the aggregation divides by a sum of positive weights only
FDiv(x, y) ==
  IF isNaN(x) \/ isNaN(y) THEN NaN
  ELSE IF FIsZero(y) \/ FIsZero(x) THEN FZero
  ELSE FDivPack(x, y, BigDivScaled(x.m, y.m))

\* -1, 0, 1 as |x| < |y|, |x| = |y|, |x| > |y|
FCmpMag(x, y) ==
  IF FIsZero(x) THEN (IF FIsZero(y) THEN 0 ELSE -1)
  ELSE IF FIsZero(y) THEN 1
  ELSE IF x.e < y.e THEN -1
  ELSE IF x.e > y.e THEN 1
  ELSE BigCmp(x.m, y.m)

FCmp(x, y) ==
  IF x.s # y.s /\ ~(FIsZero(x) /\ FIsZero(y))
  THEN (IF FIsZero(x) THEN -y.s ELSE x.s)
  ELSE x.s * FCmpMag(x, y)

\* x <= y and x === y
FLe(x, y) == ~isNaN(x) /\ ~isNaN(y) /\ FCmp(x, y) <= 0
FEq(x, y) == ~isNaN(x) /\ ~isNaN(y) /\ FCmp(x, y) = 0

\* x + y for mantissas Nx, Ny aligned at the exponent e
FSubAligned(x, y, e, Nx, Ny, c) ==
  IF c = 0 THEN FZero
  ELSE IF c > 0 THEN RoundPack(x.s, BigSub(Nx, Ny), e, FALSE)
  ELSE RoundPack(y.s, BigSub(Ny, Nx), e, FALSE)

FAddAligned(x, y, e, Nx, Ny) ==
  IF x.s = y.s THEN RoundPack(x.s, BigAdd(Nx, Ny), e, FALSE)
  ELSE FSubAligned(x, y, e, Nx, Ny, BigCmp(Nx, Ny))

FAddAt(x, y, e) == FAddAligned(x, y, e, BigShl(x.m, x.e - e), BigShl(y.m, y.e - e))

\* an operand more than 2^60 times smaller than the other is below a quarter
\* of its last place and does not change it
FAdd(x, y) ==
  IF isNaN(x) \/ isNaN(y) THEN NaN
  ELSE IF FIsZero(x) THEN y
  ELSE IF FIsZero(y) THEN x
  ELSE IF x.e - y.e > 60 THEN x
  ELSE IF y.e - x.e > 60 THEN y
  ELSE FAddAt(x, y, MinOf(x.e, y.e))

\* Math.max and Math.min: NaN when an argument is NaN
FMax(x, y) == IF isNaN(x) \/ isNaN(y) THEN NaN ELSE IF FLe(x, y) THEN y ELSE x
FMin(x, y) == IF isNaN(x) \/ isNaN(y) THEN NaN ELSE IF FLe(x, y) THEN x ELSE y

\* Math.round: the nearest integer, ties toward +infinity (|x| < 2^28), as an
\* integer; NaN for NaN
MathRound(x) ==
  IF isNaN(x) THEN NaN
  ELSE IF FIsZero(x) THEN 0
  ELSE IF x.e >= 0 THEN x.s * BigToInt(BigShl(x.m, x.e))
  ELSE IF -x.e > MantBits + 1 THEN 0
  ELSE LET fl   == BigToInt(BigShr(x.m, -x.e))
           half == BigBit(x.m, -x.e - 1)
           low  == ~BigLowZero(x.m, -x.e - 1)
       IN  IF x.s = 1 THEN fl + half
           ELSE -(fl + (IF half = 1 /\ low THEN 1 ELSE 0))

\* the double nearest to the decimal n / d (n, d integers, d > 0): the value
\* of a numeric literal, and of Number() on a stored decimal
Dec(n, d) == FDiv(FromInt(n), FromInt(d))

\* x - y
FSub(x, y) == FAdd(x, FNeg(y))

\* the largest R with R * R <= M, found bit by bit from bit b down
RECURSIVE SqrtBits(_, _, _)
SqrtTry(M, R, cand, b) ==
  IF BigCmp(BigMul(cand, cand), M) <= 0 THEN SqrtBits(M, cand, b - 1)
                                        ELSE SqrtBits(M, R, b - 1)

SqrtBits(M, R, b) ==
  IF b < 0 THEN BigTrim(R) ELSE SqrtTry(M, R, BigAdd(R, BigShl(<<1>>, b)), b)

\* x = M * 2^e with e even and M of 107 or 108 bits; R = floor(sqrt(M)) has
\* 54 bits, and the rest of the root is nonzero exactly when R * R # M
FSqrtPack(M, R, e) == RoundPack(1, R, e \div 2, BigCmp(BigMul(R, R), M) # 0)

FSqrtScaled(M, e) == FSqrtPack(M, SqrtBits(M, <<>>, MantBits), e)

FSqrtShift(x, k) == FSqrtScaled(BigShl(x.m, k), x.e - k)

\* Math.sqrt of x >= 0, correctly rounded
FSqrt(x) ==
  IF isNaN(x) THEN NaN
  ELSE IF FIsZero(x) THEN FZero
  ELSE FSqrtShift(x, IF (x.e - (MantBits + 1)) % 2 = 0 THEN MantBits + 1 ELSE MantBits + 2)

\* --------------------------------------------------------------------------
\* SENTIMENT_CONSTANTS (shared package)
\* --------------------------------------------------------------------------
MIN_SCORE == 0
MAX_SCORE == 100

EXTREME_FEAR_THRESHOLD == 25
FEAR_THRESHOLD == 40
NEUTRAL_THRESHOLD == 60
GREED_THRESHOLD == 75

\* the literals 0.3, 0.25, 0.2, 0.15, 0.1 as the doubles they denote
DEFAULT_WEIGHTS ==
  [vix     |-> Dec(3, 10),
   breadth |-> Dec(25, 100),
   volume  |-> Dec(2, 10),
   margin  |-> Dec(15, 100),
   foreign |-> Dec(1, 10)]

SENTIMENT_STATES ==
  [EXTREME_FEAR  |-> "extreme_fear",
   FEAR          |-> "fear",
   NEUTRAL       |-> "neutral",
   GREED         |-> "greed",
   EXTREME_GREED |-> "extreme_greed"]

SENTIMENT_COLORS ==
  [extreme_fear  |-> "#0044ff",
   fear          |-> "#0088ff",
   neutral       |-> "#00aa00",
   greed         |-> "#ff8800",
   extreme_greed |-> "#ff4444"]

\* the advice texts, in English
\* (ACTIONS in the source; the word is reserved here)
ACTION_TEXTS ==
  [extreme_fear  |-> "extreme panic, buy the dips",
   fear          |-> "panic, watch for opportunities",
   neutral       |-> "participate moderately",
   greed         |-> "greed, wait and see",
   extreme_greed |-> "extreme greed, operate cautiously, reduce on highs"]

\* --------------------------------------------------------------------------
\* SentimentUtils.getSentimentStatus (score is a double)
\* --------------------------------------------------------------------------
MinusOne == FromInt(-1)

statusInfoOf(status) ==
  [status |-> status,
   color  |-> SENTIMENT_COLORS[status],
   action |-> ACTION_TEXTS[status]]

\* the thresholds taken as exclusive upper bounds
exclusiveSentimentStatus(score) ==
  IF FEq(score, MinusOne)
  THEN [status |-> "no_data",
        color  |-> "#999999",
        action |-> "insufficient data, no advice available"]
  ELSE statusInfoOf(
         IF ~FLe(FromInt(EXTREME_FEAR_THRESHOLD), score) THEN SENTIMENT_STATES.EXTREME_FEAR
         ELSE IF ~FLe(FromInt(FEAR_THRESHOLD), score) THEN SENTIMENT_STATES.FEAR
         ELSE IF ~FLe(FromInt(NEUTRAL_THRESHOLD), score) THEN SENTIMENT_STATES.NEUTRAL
         ELSE IF ~FLe(FromInt(GREED_THRESHOLD), score) THEN SENTIMENT_STATES.GREED
         ELSE SENTIMENT_STATES.EXTREME_GREED)

getSentimentStatus(score) ==
  IF FEq(score, MinusOne)
  THEN [status |-> "no_data",
        color  |-> "#999999",
        action |-> "insufficient data, no advice available"]
  ELSE statusInfoOf(
         IF FLe(score, FromInt(EXTREME_FEAR_THRESHOLD)) THEN SENTIMENT_STATES.EXTREME_FEAR
         ELSE IF FLe(score, FromInt(FEAR_THRESHOLD)) THEN SENTIMENT_STATES.FEAR
         ELSE IF FLe(score, FromInt(NEUTRAL_THRESHOLD)) THEN SENTIMENT_STATES.NEUTRAL
         ELSE IF FLe(score, FromInt(GREED_THRESHOLD)) THEN SENTIMENT_STATES.GREED
         ELSE SENTIMENT_STATES.EXTREME_GREED)

\* --------------------------------------------------------------------------
\* State: the wall clock in minutes since Sunday 00:00 (Asia/Shanghai), the
\* market_data and sentiment_history tables in insertion order, the calls
\* of calculateCurrentSentiment so far with the results they returned, and the
\* direct calls of SentimentUtils.getSentimentStatus with theirs, the
\* history and statistics queries answered with their answers, the calls in
\* flight at an await, the stock count cache, and the deployment (the zone of
\* the process clock and the database).
\* A market_data row is [dataType, isValid, normalizedValue, createdAt]; its
\* normalizedValue is a decimal(10,4) held in ten-thousandths, <<v>>, followed
\* by the double that was saved when the database keeps it as it is,
\* <<v, double>> (a double on SQLite, NaN on PostgreSQL, where v is NaN as
\* well), or <<>> when the column is NULL.
\* --------------------------------------------------------------------------
VARIABLES clock, marketData, sentimentHistory, returned, classification, queries,
          inFlight, stockCountCache, environment

vars == <<clock, marketData, sentimentHistory, returned, classification, queries,
          inFlight, stockCountCache, environment>>

\* the doubles nearest to the decimals the collection runs store, worked out
\* once
StoredDecimals == [decimal \in {-10000, 0, 450, 6000} |-> Dec(decimal, 10000)]

\* Number() of a decimal text of four decimals: the double nearest to it
Number(decimal) ==
  IF decimal \in DOMAIN StoredDecimals THEN StoredDecimals[decimal] ELSE Dec(decimal, 10000)

\* Number(record.normalizedValue): the double the column kept, or the double
\* nearest to the decimal it rounded to
columnValue(cell) == IF Len(cell) = 2 THEN cell[2] ELSE Number(cell[1])

\* the result of findOne when no row matches
NoRecord == 0

\* the query with the cutoff itself included in the window
findOneFromCutoff(store, dataType, cutoffTime) ==
  LET found == {idx \in 1..Len(store) :
                  /\ store[idx].dataType = dataType
                  /\ store[idx].isValid
                  /\ store[idx].createdAt >= cutoffTime}
  IN  IF found = {} THEN {NoRecord}
      ELSE {idx \in found : \A other \in found : store[other].createdAt <= store[idx].createdAt}

\* the query without its ORDER BY: any row that is valid and in the window
findOneUnordered(store, dataType, cutoffTime) ==
  LET found == {idx \in 1..Len(store) :
                  /\ store[idx].dataType = dataType
                  /\ store[idx].isValid
                  /\ store[idx].createdAt > cutoffTime}
  IN  IF found = {} THEN {NoRecord} ELSE found

\* One query of getLatestDataByTypes: the rows of the type that are valid and
\* created strictly after the cutoff, newest first, first row taken.  Rows of
\* equal createdAt come in an order the database does not specify, so the
\* result is any of the newest rows.  Rows are named by their position.
findOne(store, dataType, cutoffTime) ==
  LET found == {idx \in 1..Len(store) :
                  /\ store[idx].dataType = dataType
                  /\ store[idx].isValid
                  /\ store[idx].createdAt > cutoffTime}
  IN  IF found = {} THEN {NoRecord}
      ELSE {idx \in found : \A other \in found : store[other].createdAt <= store[idx].createdAt}

\* the possible values of latestData for the five types queried
getLatestDataByTypes(store, cutoffTime) ==
  [breadth : findOne(store, "breadth", cutoffTime),
   volume  : findOne(store, "volume", cutoffTime),
   margin  : findOne(store, "margin", cutoffTime),
   foreign : findOne(store, "foreign", cutoffTime),
   vix     : findOne(store, "vix", cutoffTime)]

extractIndicatorValue(store, latestData, dataType) ==
  LET record == latestData[dataType]
  IN  IF record = NoRecord THEN MinusOne
      ELSE IF store[record].normalizedValue = <<>> THEN MinusOne
      ELSE columnValue(store[record].normalizedValue)

calculateDataFreshness(store, latestData, nowTime) ==
  [dataType \in {key \in DOMAIN latestData : latestData[key] # NoRecord} |->
     LET record     == store[latestData[dataType]]
         minutesOld == nowTime - record.createdAt
     IN  [minutesOld |-> minutesOld,
          isFresh    |-> minutesOld < 30,
          timestamp  |-> record.createdAt]]

weights == DEFAULT_WEIGHTS

\* Object.keys(this.weights)
WeightKeys == <<"vix", "breadth", "volume", "margin", "foreign">>

\* the forEach over the weight keys, from key number idx on
RECURSIVE Accumulate(_, _, _)
Accumulate(indicators, idx, acc) ==
  IF idx > Len(WeightKeys) THEN acc
  ELSE LET key    == WeightKeys[idx]
           weight == weights[key]
           value  == indicators[key]
       IN  IF ~FEq(value, MinusOne)
           THEN Accumulate(indicators, idx + 1,
                  [weightedSum         |-> FAdd(acc.weightedSum, FMul(value, weight)),
                   totalWeight         |-> FAdd(acc.totalWeight, weight),
                   validIndicatorCount |-> acc.validIndicatorCount + 1])
           ELSE Accumulate(indicators, idx + 1, acc)

\* Math.round as the double it returns
roundedNumber(x) == IF isNaN(x) THEN NaN ELSE FromInt(MathRound(x))

\* the result returned when no indicator is valid; score is a double, as
\* every number of a result
noDataResult(indicators, dataFreshness, nowTime) ==
  [score      |-> MinusOne,
   status     |-> "no_data",
   color      |-> "#999999",
   action     |-> "insufficient data, cannot compute the sentiment index",
   indicators |-> indicators,
   calculationDetails |->
     [weights             |-> weights,
      rawIndicators       |-> indicators,
      weightedSum         |-> FZero,
      totalWeight         |-> FZero,
      validIndicatorCount |-> 0,
      dataFreshness       |-> dataFreshness,
      calculatedAt        |-> nowTime],
   timestamp  |-> nowTime]

\* the result returned otherwise
scoredResult(indicators, sums, sentimentScore, finalScore, statusInfo, dataFreshness, nowTime) ==
  [score      |-> roundedNumber(finalScore),
   status     |-> statusInfo.status,
   color      |-> statusInfo.color,
   action     |-> statusInfo.action,
   indicators |-> indicators,
   calculationDetails |->
     [weights             |-> weights,
      rawIndicators       |-> indicators,
      weightedSum         |-> sentimentScore,
      totalWeight         |-> sums.totalWeight,
      validIndicatorCount |-> sums.validIndicatorCount,
      dataFreshness       |-> dataFreshness,
      calculatedAt        |-> nowTime],
   timestamp  |-> nowTime]

\* finalScore = Math.max(MIN_SCORE, Math.min(MAX_SCORE, sentimentScore * 100))
clampScore(sentimentScore) ==
  FMax(FromInt(MIN_SCORE), FMin(FromInt(MAX_SCORE), FMul(sentimentScore, FromInt(100))))

classified(indicators, sums, sentimentScore, finalScore, dataFreshness, nowTime) ==
  scoredResult(indicators, sums, sentimentScore, finalScore,
               getSentimentStatus(finalScore), dataFreshness, nowTime)

normalized(indicators, sums, sentimentScore, dataFreshness, nowTime) ==
  classified(indicators, sums, sentimentScore, clampScore(sentimentScore),
             dataFreshness, nowTime)

\* from the sums of the weighting loop to the result
resultOf(indicators, sums, dataFreshness, nowTime) ==
  IF sums.validIndicatorCount = 0
  THEN noDataResult(indicators, dataFreshness, nowTime)
  ELSE normalized(indicators, sums, FDiv(sums.weightedSum, sums.totalWeight),
                  dataFreshness, nowTime)

aggregate(indicators, dataFreshness, nowTime) ==
  resultOf(indicators,
           Accumulate(indicators, 1,
             [weightedSum |-> FZero, totalWeight |-> FZero, validIndicatorCount |-> 0]),
           dataFreshness, nowTime)

\* calculateCurrentSentiment at time nowTime, given what the queries returned
calculateCurrentSentiment(store, latestData, nowTime) ==
  aggregate([vix     |-> extractIndicatorValue(store, latestData, "vix"),
             breadth |-> extractIndicatorValue(store, latestData, "breadth"),
             volume  |-> extractIndicatorValue(store, latestData, "volume"),
             margin  |-> extractIndicatorValue(store, latestData, "margin"),
             foreign |-> extractIndicatorValue(store, latestData, "foreign")],
            calculateDataFreshness(store, latestData, nowTime),
            nowTime)

\* --------------------------------------------------------------------------
\* Clock and schedules
\* --------------------------------------------------------------------------
MinutesPerDay == 24 * 60

\* The deployment: the zone the process reads its clock in (TZ) and the
\* database behind the tables (DB_TYPE, SQLite when it is not set).  clock
\* counts the minutes of Asia/Shanghai, the zone of the schedules; zoneLag is
\* the minutes the process-local zone is behind it: none, or those of UTC.
Environments == [zoneLag : {0, 8 * 60}, database : {"sqlite", "mysql", "postgres"}]

\* a process in Asia/Shanghai on the default database
ShanghaiDefault == [zoneLag |-> 0, database |-> "sqlite"]

\* moment(): the instant read in the process-local zone
moment(instant) == instant - environment.zoneLag

hourOf(nowTime) == (nowTime % MinutesPerDay) \div 60
minuteOf(nowTime) == nowTime % 60
\* moment().day(): 0 is Sunday
dayOf(nowTime) == (nowTime \div MinutesPerDay) % 7

isTradingTime(nowTime) ==
  LET hour           == hourOf(nowTime)
      minute         == minuteOf(nowTime)
      day            == dayOf(nowTime)
      morningStart   == 9 * 60 + 30
      morningEnd     == 11 * 60 + 30
      afternoonStart == 13 * 60
      afternoonEnd   == 15 * 60
      currentMinute  == hour * 60 + minute
  IN  IF day = 0 \/ day = 6 THEN FALSE
      ELSE \/ (currentMinute >= morningStart /\ currentMinute <= morningEnd)
           \/ (currentMinute >= afternoonStart /\ currentMinute <= afternoonEnd)

\* @Cron('*/10 * 9-15 * * 1-5'): hours 9 to 15 of Monday to Friday
CronMatches(nowTime) ==
  /\ hourOf(nowTime) >= 9 /\ hourOf(nowTime) <= 15
  /\ dayOf(nowTime) >= 1 /\ dayOf(nowTime) <= 5

\* moment().format('YYYY-MM-DD'): the day, as a day number
tradingDateOf(nowTime) == nowTime \div MinutesPerDay

\* --------------------------------------------------------------------------
\* DataCollectionUtils: the rows written by a collection run
\* --------------------------------------------------------------------------
\* normalizedValue is what the column holds of the value saved
saveSuccessResult(dataType, normalizedValue, nowTime) ==
  [dataType        |-> dataType,
   isValid         |-> TRUE,
   normalizedValue |-> normalizedValue,
   errorMessage    |-> <<>>,
   createdAt       |-> nowTime]

\* the error row saved as a valid reading of 0
saveErrorAsReading(dataType, nowTime) ==
  [dataType        |-> dataType,
   isValid         |-> TRUE,
   normalizedValue |-> <<0>>,
   errorMessage    |-> <<"error">>,
   createdAt       |-> nowTime]

saveErrorResult(dataType, nowTime) ==
  [dataType        |-> dataType,
   isValid         |-> FALSE,
   normalizedValue |-> <<>>,
   errorMessage    |-> <<"error">>,
   createdAt       |-> nowTime]

\* A double written to the decimal(10,4) column normalized_value.  MySQL and
\* PostgreSQL round it to four decimals; SQLite, whose column has NUMERIC
\* affinity, keeps it as it is.  NaN is bound as NULL by the SQLite driver
\* and kept by PostgreSQL, whose numeric type has a NaN of its own and gives
\* it back as the text 'NaN'.
decimalColumn(value, database) ==
  IF database = "sqlite" /\ isNaN(value) THEN <<>>
  ELSE IF database = "sqlite" \/ isNaN(value)
  THEN <<MathRound(FMul(value, FromInt(10000))), value>>
  ELSE <<MathRound(FMul(value, FromInt(10000)))>>

\* MySQL has no NaN: the INSERT of one fails and save() rejects
insertRejected(value, database) == database = "mysql" /\ isNaN(value)

\* --------------------------------------------------------------------------
\* DataCollectionUtils.executeDataCollection with its result.  parsedData is
\* the number the normalizer reads.  A save may throw.  The outcome is the
\* row saved, if any, and the DataCollectionResult returned, or no result
\* when the save of the error row threw: it is awaited in the catch block,
\* so the run rejects.
\* --------------------------------------------------------------------------
collectionSucceeded(dataType, parsedData, normalizedValue, nowTime, database) ==
  [saved  |-> <<saveSuccessResult(dataType, decimalColumn(normalizedValue, database), nowTime)>>,
   result |-> <<[success |-> TRUE, dataType |-> dataType,
                 data |-> <<parsedData>>, error |-> <<>>]>>]

collectionFailed(dataType, nowTime, errorSaveThrows) ==
  IF errorSaveThrows THEN [saved |-> <<>>, result |-> <<>>]
  ELSE [saved  |-> <<saveErrorResult(dataType, nowTime)>>,
        result |-> <<[success |-> FALSE, dataType |-> dataType,
                      data |-> <<>>, error |-> <<"error">>]>>]

\* normalizedValue is <<>> when the fetcher or the normalizer threw
executeDataCollectionOutcome(dataType, parsedData, normalizedValue, nowTime, saveThrows, errorSaveThrows, database) ==
  IF normalizedValue # <<>> /\ ~saveThrows /\ ~insertRejected(normalizedValue[1], database)
  THEN collectionSucceeded(dataType, parsedData, normalizedValue[1], nowTime, database)
  ELSE collectionFailed(dataType, nowTime, errorSaveThrows)

\* --------------------------------------------------------------------------
\* JSON.stringify and JSON.parse.  A JavaScript value is [type, value] with
\* type "number" (value a double), "string", "boolean" or "Date" (value the
\* instant; a string that is the ISO text of an instant is named by the
\* instant as well), or [type |-> "object", members |-> the values by key].
\* A JSON text is held as the tree of its tokens, in the same form: number,
\* string and boolean tokens, null, and objects.
\* --------------------------------------------------------------------------
jsNumber(x) == [type |-> "number", value |-> x]
jsString(text) == [type |-> "string", value |-> text]
jsBoolean(b) == [type |-> "boolean", value |-> b]
jsDate(instant) == [type |-> "Date", value |-> instant]
jsObject(members) == [type |-> "object", members |-> members]

jsonNull == [type |-> "null"]

\* Date.prototype.toJSON: toISOString(), a string
toJSON(date) == jsString(date.value)

\* JSON.stringify: a Date is written through toJSON, a number that is not
\* finite as null, a finite number as the shortest decimal that reads back
\* as the same double (the token is named by that double), a string and a
\* boolean as they are, an object member by member
RECURSIVE JSONstringify(_)
JSONstringify(value) ==
  IF value.type = "object"
  THEN jsObject([key \in DOMAIN value.members |-> JSONstringify(value.members[key])])
  ELSE IF value.type = "Date" THEN toJSON(value)
  ELSE IF value.type = "number" /\ isNaN(value.value) THEN jsonNull
  ELSE value

\* JSON.parse: a number token is the double it denotes, a string token a
\* string (an ISO text is not made a Date again), null is null
RECURSIVE JSONparse(_)
JSONparse(text) ==
  IF text.type = "object"
  THEN jsObject([key \in DOMAIN text.members |-> JSONparse(text.members[key])])
  ELSE text

\* sentimentData.indicators and the weight table: objects of numbers
jsNumbers(numbers) == jsObject([key \in DOMAIN numbers |-> jsNumber(numbers[key])])

\* an entry of dataFreshness: minutesOld a number, isFresh a boolean,
\* timestamp the createdAt of the row, a Date
jsFreshness(entry) ==
  jsObject([minutesOld |-> jsNumber(FromInt(entry.minutesOld)),
            isFresh    |-> jsBoolean(entry.isFresh),
            timestamp  |-> jsDate(entry.timestamp)])

\* sentimentData.calculationDetails; calculatedAt is new Date().toISOString()
jsCalculationDetails(details) ==
  jsObject([weights             |-> jsNumbers(details.weights),
            rawIndicators       |-> jsNumbers(details.rawIndicators),
            weightedSum         |-> jsNumber(details.weightedSum),
            totalWeight         |-> jsNumber(details.totalWeight),
            validIndicatorCount |-> jsNumber(FromInt(details.validIndicatorCount)),
            dataFreshness       |->
              jsObject([dataType \in DOMAIN details.dataFreshness |->
                          jsFreshness(details.dataFreshness[dataType])]),
            calculatedAt        |-> jsString(details.calculatedAt)])

\* --------------------------------------------------------------------------
\* DataAggregationService.saveSentimentHistory: create() builds an entity
\* without id, which save() inserts as a new row.  The score column is a
\* decimal(5,2), held in hundredths.  A score is NaN only where a column of
\* market_data gave NaN back, on PostgreSQL, whose numeric column keeps it.
\* --------------------------------------------------------------------------
scoreColumn(score) == IF isNaN(score) THEN NaN ELSE MathRound(FMul(score, FromInt(100)))

sentimentHistoryEntity(sentimentData, tradingDate, insertedAt) ==
  [score              |-> scoreColumn(sentimentData.score),
   status             |-> sentimentData.status,
   indicators         |-> JSONstringify(jsNumbers(sentimentData.indicators)),
   calculationDetails |-> JSONstringify(jsCalculationDetails(sentimentData.calculationDetails)),
   tradingDate        |-> tradingDate,
   createdAt          |-> insertedAt]

\* the save keeping one row per trading date: rows of the date are replaced
saveSentimentHistoryPerDay(history, sentimentData, tradingDate, insertedAt) ==
  Append(SelectSeq(history, LAMBDA row : row.tradingDate # tradingDate),
         sentimentHistoryEntity(sentimentData, tradingDate, insertedAt))

\* the entity is created with the tradingDate of the call time and inserted
\* by the awaited save, which stamps createdAt (@CreateDateColumn)
saveSentimentHistory(history, sentimentData, tradingDate, insertedAt) ==
  Append(history, sentimentHistoryEntity(sentimentData, tradingDate, insertedAt))

\* --------------------------------------------------------------------------
\* The service as a state machine
\* --------------------------------------------------------------------------
MaxRecords == 2
MaxTicks == 2
MaxCalls == 2

\* the indicator types the collection services collect: collectMarginData and
\* collectVIXData are those of the service in common/index.ts
CollectedTypes == {"breadth", "volume", "vix", "margin"}

\* normalized readings a collection run may produce: 0.045 and 0.6
NormalizedValues == {Dec(450, 10000), Dec(6000, 10000)}

\* the normalized values of a type: getMarginData is not defined, so the
\* fetcher of collectMarginData always ends in its catch and the normalizer
\* returns -1; the normalizer of collectVIXData returns -1 when an index
\* history is short or its request fails, NaN when a history of 30 prices
\* holds one that is not finite, and a reading otherwise.  The normalizer
\* has not thrown, so the value goes to saveSuccessResult, -1 and NaN
\* included.
readingsOf(dataType) ==
  IF dataType = "margin" THEN {MinusOne}
  ELSE IF dataType = "vix" THEN NormalizedValues \cup {MinusOne, NaN}
  ELSE NormalizedValues

\* Monday 09:00, the first hour of the schedules
StartOfRun == MinutesPerDay + 9 * 60

\* Monday 09:30, the opening of the morning session
OpeningTime == StartOfRun + 30

\* what market_data holds when the service starts: nothing, or a valid
\* breadth row half an hour old, whose normalized_value column is NULL or
\* holds 0.045
StoredAtStart ==
  {<<>>} \cup
  {<<[dataType        |-> "breadth",
      isValid         |-> TRUE,
      normalizedValue |-> reading,
      errorMessage    |-> <<>>,
      createdAt       |-> OpeningTime - 30]>> : reading \in {<<>>, <<450>>}}

\* a behaviour has at most MaxEvents collections and calculations: the rows
\* written since the opening, the calls returned and the calls in flight
MaxEvents == 3

eventsLeft ==
  Cardinality({idx \in 1..Len(marketData) : marketData[idx].createdAt >= OpeningTime})
    + Len(returned) + Len(inFlight) < MaxEvents

\* The process starts on any of the three databases, in either zone.
Init ==
  /\ clock = OpeningTime
  /\ inFlight = <<>>
  /\ stockCountCache = <<>>
  /\ environment \in Environments
  /\ marketData \in StoredAtStart
  /\ sentimentHistory = <<>>
  /\ returned = <<>>
  /\ classification = <<>>
  /\ queries = <<>>

\* half an hour passes
Tick ==
  /\ clock + 30 <= StartOfRun + 30 * MaxTicks
  /\ clock' = clock + 30
  /\ UNCHANGED <<marketData, sentimentHistory, returned, classification, queries>>
  /\ UNCHANGED <<inFlight, stockCountCache, environment>>

\* DataCollectionUtils.executeDataCollection for one type, with saves that
\* do not throw by themselves: the fetch and the normalizer yield a value and
\* the success row is saved, or they throw and the error row is saved
executeDataCollection ==
  /\ Len(marketData) < MaxRecords
  /\ eventsLeft
  /\ \E dataType \in CollectedTypes :
       \/ \E normalizedValue \in readingsOf(dataType) :
            marketData' = marketData \o
              executeDataCollectionOutcome(dataType, normalizedValue, <<normalizedValue>>,
                clock, FALSE, FALSE, environment.database).saved
       \/ marketData' = marketData \o
            executeDataCollectionOutcome(dataType, FZero, <<>>,
              clock, FALSE, FALSE, environment.database).saved
  /\ UNCHANGED <<clock, sentimentHistory, returned, classification, queries>>
  /\ UNCHANGED <<inFlight, stockCountCache, environment>>

\* --------------------------------------------------------------------------
\* calculateCurrentSentiment step by step.  getLatestDataByTypes awaits one
\* findOne per type, in the order of the types, so rows saved while the call
\* runs are seen by the later queries only; the clock moves on as well.  A
\* call in flight is [trigger, startedAt, cutoffTime, rows, next, latestData,
\* rowsAt, result, tradingDate]: who called ("demand", the controller "api"
\* or the scheduled "job"), when, the cutoff taken on entry, how many rows market_data held on
\* entry, the position in the loop, the rows read, how many rows of each type
\* were stored when the type was queried, and, for the job once the loop is
\* over, the result awaiting its save with the tradingDate of its entity.
\* --------------------------------------------------------------------------
MaxInFlight == 1

QueriedTypes == <<"breadth", "volume", "margin", "foreign", "vix">>

\* const latestData = {}
NothingRead == [dataType \in {"breadth", "volume", "margin", "foreign", "vix"} |-> NoRecord]

\* the call entered: cutoffTime is taken, no query issued yet
enteredCall(trigger, store, nowTime) ==
  [trigger     |-> trigger,
   startedAt   |-> nowTime,
   cutoffTime  |-> nowTime - 60,
   rows        |-> Len(store),
   next        |-> 1,
   latestData  |-> NothingRead,
   rowsAt      |-> [dataType \in DOMAIN NothingRead |-> 0],
   result      |-> <<>>,
   tradingDate |-> <<>>]

\* the call after the query for its next type has returned the row record;
\* rowsAt notes how many rows of the type the table held at the query
queriedCall(call, record, store) ==
  [call EXCEPT !.latestData[QueriedTypes[call.next]] = record,
               !.rowsAt[QueriedTypes[call.next]] =
                 Cardinality({idx \in 1..Len(store) :
                                store[idx].dataType = QueriedTypes[call.next]}),
               !.next = @ + 1]

\* the call after the loop: the indicators are extracted and the result is
\* returned, which the job hands to saveSentimentHistory; create() takes the
\* tradingDate from moment()
returnedCall(call, store, nowTime, localTime) ==
  [call EXCEPT !.result = <<calculateCurrentSentiment(store, call.latestData, nowTime)>>,
               !.tradingDate = <<tradingDateOf(localTime)>>]

\* the call after one awaited findOne; the last one ends the loop
afterFindOne(call, record, store, nowTime, localTime) ==
  IF call.next < Len(QueriedTypes)
  THEN queriedCall(call, record, store)
  ELSE returnedCall(queriedCall(call, record, store), store, nowTime, localTime)

\* what is recorded of a call that returned: who called ("demand", or the
\* scheduled job, "saved" when its save succeeded and "failed" when the save
\* threw), when it was entered and when it ended, the rows market_data held
\* on entry and those of each type when the type was queried, the rows read
\* and the result
Call(trigger, call, nowTime) ==
  [trigger    |-> trigger,
   at         |-> nowTime,
   startedAt  |-> call.startedAt,
   rows       |-> call.rows,
   rowsAt     |-> call.rowsAt,
   latestData |-> call.latestData,
   result     |-> call.result[1]]

\* the calls in flight without the one of the position
withoutCall(calls, position) ==
  SubSeq(calls, 1, position - 1) \o SubSeq(calls, position + 1, Len(calls))

\* what SentimentController.getCurrentSentiment answers once the call of
\* calculateCurrentSentiment it awaits has ended: <<result>>, or <<>> when a
\* query threw, the error being logged, thrown again and let through by the
\* controller.  storesThrow says whether reading the indicators one by one
\* from their stores would fail too; the controller never gets to use it.
currentSentimentAnswer(call, nowTime, storesThrow) ==
  [op           |-> "current",
   at           |-> call.startedAt,
   answeredAt   |-> nowTime,
   rows         |-> call.rows,
   rowsAt       |-> call.rowsAt,
   latestData   |-> call.latestData,
   primaryThrew |-> call.result = <<>>,
   storesThrew  |-> storesThrow,
   answer       |-> call.result]

\* calculateCurrentSentiment called on demand: the call is entered
CalculateOnDemand ==
  /\ Len(returned) + Len(inFlight) < MaxCalls
  /\ eventsLeft
  /\ Len(inFlight) < MaxInFlight
  /\ inFlight' = Append(inFlight, enteredCall("demand", marketData, clock))
  /\ UNCHANGED <<clock, marketData, sentimentHistory, returned, classification, queries>>
  /\ UNCHANGED <<stockCountCache, environment>>

\* an awaited findOne with the calculation on demand saving its result
AwaitFindOneSaving ==
  /\ \E call \in 1..Len(inFlight) :
       /\ inFlight[call].next <= Len(QueriedTypes)
       /\ \E record \in findOne(marketData, QueriedTypes[inFlight[call].next], inFlight[call].cutoffTime) :
            \E after \in {afterFindOne(inFlight[call], record, marketData, clock, moment(clock))} :
              IF after.result = <<>> \/ after.trigger = "job"
              THEN /\ inFlight' = [inFlight EXCEPT ![call] = after]
                   /\ UNCHANGED <<returned, queries, sentimentHistory>>
              ELSE IF after.trigger = "demand"
              THEN /\ inFlight' = withoutCall(inFlight, call)
                   /\ returned' = Append(returned, Call("demand", after, clock))
                   /\ sentimentHistory' =
                        saveSentimentHistory(sentimentHistory, after.result[1],
                                             after.tradingDate[1], clock)
                   /\ UNCHANGED queries
              ELSE /\ inFlight' = withoutCall(inFlight, call)
                   /\ \E storesThrow \in BOOLEAN :
                        queries' = Append(queries, currentSentimentAnswer(after, clock, storesThrow))
                   /\ UNCHANGED <<returned, sentimentHistory>>
  /\ UNCHANGED <<clock, marketData, classification>>
  /\ UNCHANGED <<stockCountCache, environment>>

\* one awaited findOne of the loop of getLatestDataByTypes returns; after
\* the last one a call on demand returns to its caller, the controller
\* answers the query with the result, and the call of the job goes on to
\* await its save
AwaitFindOne ==
  /\ \E call \in 1..Len(inFlight) :
       /\ inFlight[call].next <= Len(QueriedTypes)
       /\ \E record \in findOne(marketData, QueriedTypes[inFlight[call].next], inFlight[call].cutoffTime) :
            \E after \in {afterFindOne(inFlight[call], record, marketData, clock, moment(clock))} :
              IF after.result = <<>> \/ after.trigger = "job"
              THEN /\ inFlight' = [inFlight EXCEPT ![call] = after]
                   /\ UNCHANGED <<returned, queries>>
              ELSE IF after.trigger = "demand"
              THEN /\ inFlight' = withoutCall(inFlight, call)
                   /\ returned' = Append(returned, Call("demand", after, clock))
                   /\ UNCHANGED queries
              ELSE /\ inFlight' = withoutCall(inFlight, call)
                   /\ \E storesThrow \in BOOLEAN :
                        queries' = Append(queries, currentSentimentAnswer(after, clock, storesThrow))
                   /\ UNCHANGED returned
  /\ UNCHANGED <<clock, marketData, sentimentHistory, classification>>
  /\ UNCHANGED <<stockCountCache, environment>>

\* one awaited findOne rejects: calculateCurrentSentiment logs the error and
\* throws it again, to the caller on demand, to the controller, which lets
\* it through to the API, or to the catch of the job, which logs it; nothing
\* is returned and nothing is saved
findOneRejects ==
  /\ \E call \in 1..Len(inFlight) :
       /\ inFlight[call].next <= Len(QueriedTypes)
       /\ inFlight' = withoutCall(inFlight, call)
       /\ IF inFlight[call].trigger = "api"
          THEN \E storesThrow \in BOOLEAN :
                 queries' = Append(queries, currentSentimentAnswer(inFlight[call], clock, storesThrow))
          ELSE UNCHANGED queries
  /\ UNCHANGED <<clock, marketData, sentimentHistory, returned, classification>>
  /\ UNCHANGED <<stockCountCache, environment>>

\* the job reporting completion whether or not the save threw
outcomeMasked(saveThrows) == "saved"

\* what the job logs after the try block: completion when the save returned,
\* the error when it threw
jobOutcome(saveThrows) == IF saveThrows THEN "failed" ELSE "saved"

\* the job fired by its schedule, which is in Asia/Shanghai: it is skipped
\* when moment() is outside trading time; otherwise calculateCurrentSentiment
\* is entered
jobEntered ==
  IF ~isTradingTime(moment(clock))
  THEN UNCHANGED inFlight
  ELSE inFlight' = Append(inFlight, enteredCall("job", marketData, clock))

\* a further calculation may be entered
callsLeft ==
  /\ Len(returned) + Len(inFlight) < MaxCalls
  /\ eventsLeft
  /\ Len(inFlight) < MaxInFlight

aggregateSentimentData ==
  /\ CronMatches(clock)
  /\ isTradingTime(moment(clock)) => callsLeft
  /\ jobEntered
  /\ UNCHANGED <<clock, marketData, sentimentHistory, returned, classification, queries>>
  /\ UNCHANGED <<stockCountCache, environment>>

\* the awaited save of saveSentimentHistory ends: the row is inserted with
\* the createdAt of the insertion, or the save throws, which the catch of
\* the job logs
AwaitSave ==
  /\ \E call \in 1..Len(inFlight) :
       /\ inFlight[call].trigger = "job"
       /\ inFlight[call].result # <<>>
       /\ \E saveThrows \in BOOLEAN :
            /\ returned' = Append(returned, Call(jobOutcome(saveThrows), inFlight[call], clock))
            /\ sentimentHistory' =
                 IF saveThrows THEN sentimentHistory
                 ELSE saveSentimentHistory(sentimentHistory, inFlight[call].result[1],
                                           inFlight[call].tradingDate[1], clock)
       /\ inFlight' = withoutCall(inFlight, call)
  /\ UNCHANGED <<clock, marketData, classification, queries>>
  /\ UNCHANGED <<stockCountCache, environment>>

Next ==
  \/ Tick
  \/ executeDataCollection
  \/ CalculateOnDemand
  \/ aggregateSentimentData
  \/ AwaitFindOne
  \/ findOneRejects
  \/ AwaitSave

Spec == Init /\ [][Next]_vars

\* --------------------------------------------------------------------------
\* The calculation alone: market_data holds at most one row per type, valid
\* and half an hour old, with a normalized value drawn from the readings
\* below (in ten-thousandths; <<>> is a NULL column), and the index is
\* calculated on demand.
\* --------------------------------------------------------------------------
NoRow == <<>>

\* -1 (the sentinel), 0.2, -0.5, 2.0
VixReadings == {NoRow, <<<<-10000>>>>, <<<<2000>>>>, <<<<-5000>>>>, <<<<20000>>>>}

\* and, on PostgreSQL, the NaN the collector saved for an index history
\* holding a price that is not finite
StoredVixReadings(database) ==
  IF database = "postgres" THEN VixReadings \cup {<<decimalColumn(NaN, database)>>}
  ELSE VixReadings

\* NULL, 0.6, 1.0
BreadthReadings == {NoRow, <<<<>>>>, <<<<6000>>>>, <<<<10000>>>>}
\* 0.7, 0.045, 0
VolumeReadings == {NoRow, <<<<7000>>>>, <<<<450>>>>, <<<<0>>>>}
\* 0.5, 0.25
MarginReadings == {NoRow, <<<<5000>>>>, <<<<2500>>>>}
\* 0.3, 0.75, 0.252, 0.4
ForeignReadings == {NoRow, <<<<3000>>>>, <<<<7500>>>>, <<<<2520>>>>, <<<<4000>>>>}

RowsOf(dataType, reading, createdAt) ==
  [idx \in 1..Len(reading) |->
     [dataType        |-> dataType,
      isValid         |-> TRUE,
      normalizedValue |-> reading[idx],
      errorMessage    |-> <<>>,
      createdAt       |-> createdAt]]

InitCalc ==
  /\ clock = StartOfRun + 30
  /\ inFlight = <<>>
  /\ stockCountCache = <<>>
  /\ environment \in Environments
  /\ \E vix \in StoredVixReadings(environment.database),
        breadth \in BreadthReadings, volume \in VolumeReadings,
        margin \in MarginReadings, foreign \in ForeignReadings :
       marketData = RowsOf("vix", vix, StartOfRun) \o RowsOf("breadth", breadth, StartOfRun)
                      \o RowsOf("volume", volume, StartOfRun)
                      \o RowsOf("margin", margin, StartOfRun)
                      \o RowsOf("foreign", foreign, StartOfRun)
  /\ sentimentHistory = <<>>
  /\ returned = <<>>
  /\ classification = <<>>
  /\ queries = <<>>

NextCalc ==
  \/ CalculateOnDemand
  \/ AwaitFindOne
  \/ findOneRejects

SpecCalc == InitCalc /\ [][NextCalc]_vars

\* --------------------------------------------------------------------------
\* The classifier alone: SentimentUtils.getSentimentStatus called directly
\* with an integer score of the scale.  classification holds the calls made,
\* each with the score passed and, once the call has returned, its result.
\* --------------------------------------------------------------------------
ScoreInputs == MIN_SCORE..MAX_SCORE

InitStatus ==
  /\ clock = StartOfRun
  /\ inFlight = <<>>
  /\ stockCountCache = <<>>
  /\ environment = ShanghaiDefault
  /\ marketData = <<>>
  /\ sentimentHistory = <<>>
  /\ returned = <<>>
  /\ \E score \in ScoreInputs : classification = <<[score |-> score, info |-> <<>>]>>
  /\ queries = <<>>

ClassifyScore ==
  /\ classification # <<>>
  /\ classification[1].info = <<>>
  /\ classification' =
       <<[score |-> classification[1].score,
          info  |-> <<getSentimentStatus(FromInt(classification[1].score))>>]>>
  /\ UNCHANGED <<clock, marketData, sentimentHistory, returned, queries>>
  /\ UNCHANGED <<inFlight, stockCountCache, environment>>

NextStatus == ClassifyScore

SpecStatus == InitStatus /\ [][NextStatus]_vars

\* --------------------------------------------------------------------------
\* DataAggregationService.getHistorySentimentData.  Rows of equal createdAt
\* come in an order the query does not specify, so the answer is any of the
\* ascending orders.  Number(record.score) is the double nearest to the
\* stored decimal(5,2).
\* --------------------------------------------------------------------------
NumberOfScore(hundredths) == Dec(hundredths, 100)

\* the orders in which ORDER BY createdAt ASC may return a set of rows
AscendingOrders(table, rows) ==
  {order \in [1..Cardinality(rows) -> rows] :
     \A i, j \in 1..Cardinality(rows) :
       i < j => /\ order[i] # order[j]
                /\ table[order[i]].createdAt <= table[order[j]].createdAt}

historyItem(record) ==
  [date   |-> record.tradingDate,
   score  |-> NumberOfScore(record.score),
   status |-> record.status]

\* the query with its start date included
getHistoryFromStart(history, days, nowTime) ==
  {[k \in DOMAIN order |-> historyItem(history[order[k]])] :
     order \in AscendingOrders(history,
                 {idx \in 1..Len(history) :
                    history[idx].createdAt >= nowTime - days * MinutesPerDay})}

getHistorySentimentData(history, days, nowTime) ==
  {[k \in DOMAIN order |-> historyItem(history[order[k]])] :
     order \in AscendingOrders(history,
                 {idx \in 1..Len(history) :
                    history[idx].createdAt > nowTime - days * MinutesPerDay})}

\* --------------------------------------------------------------------------
\* The history and its query: sentiment_history starts with the records of
\* runs of the Friday before, the scheduled job runs, and the history is
\* queried.
\* --------------------------------------------------------------------------
MaxQueries == 1

\* days of history asked for
DaysInputs == {0, 3, 7}

\* Friday 09:30, three days before the first run of the Monday
FridayRun == StartOfRun + 30 - 3 * MinutesPerDay

\* the record a scheduled run at runTime saves over a store holding one
\* breadth reading half an hour old
PastRecord(reading, runTime) ==
  sentimentHistoryEntity(
    calculateCurrentSentiment(RowsOf("breadth", <<<<reading>>>>, runTime - 30),
      [breadth |-> 1, volume |-> NoRecord, margin |-> NoRecord,
       foreign |-> NoRecord, vix |-> NoRecord],
      runTime),
    tradingDateOf(runTime), runTime)

StoredHistory ==
  {<<>>,
   <<PastRecord(6000, FridayRun)>>,
   <<PastRecord(6000, FridayRun), PastRecord(2500, FridayRun + 30)>>}

InitHistory ==
  /\ clock = StartOfRun + 30
  /\ inFlight = <<>>
  /\ stockCountCache = <<>>
  /\ environment \in {deployment \in Environments : deployment.database = "sqlite"}
  /\ marketData \in {<<>>, RowsOf("breadth", <<<<6000>>>>, StartOfRun)}
  /\ sentimentHistory \in StoredHistory
  /\ returned = <<>>
  /\ classification = <<>>
  /\ queries = <<>>

\* getHistorySentimentData called by the API layer: startDate is taken from
\* moment() and the find is issued.  The query is recorded with the rows the
\* history held at the call
QueryHistory ==
  /\ Len(queries) < MaxQueries
  /\ \E days \in DaysInputs :
       queries' = Append(queries,
                    [op |-> "history", days |-> days, at |-> clock, answered |-> FALSE,
                     rowsOnEntry |-> Len(sentimentHistory), rows |-> Len(sentimentHistory),
                     answer |-> <<>>])
  /\ UNCHANGED <<clock, marketData, sentimentHistory, returned, classification>>
  /\ UNCHANGED <<inFlight, stockCountCache, environment>>

\* the awaited find returns: it has read the table as it is now, with the
\* startDate of the call
AwaitFind ==
  /\ \E query \in 1..Len(queries) :
       /\ queries[query].op = "history"
       /\ ~queries[query].answered
       /\ \E answer \in getHistorySentimentData(sentimentHistory, queries[query].days, queries[query].at) :
            queries' = [queries EXCEPT ![query].answered = TRUE,
                                       ![query].rows = Len(sentimentHistory),
                                       ![query].answer = answer]
  /\ UNCHANGED <<clock, marketData, sentimentHistory, returned, classification>>
  /\ UNCHANGED <<inFlight, stockCountCache, environment>>

NextHistory ==
  \/ Tick
  \/ aggregateSentimentData
  \/ AwaitFindOne
  \/ findOneRejects
  \/ AwaitSave
  \/ QueryHistory
  \/ AwaitFind

SpecHistory == InitHistory /\ [][NextHistory]_vars

\* --------------------------------------------------------------------------
\* DataAggregationService.getAggregatedStats and calculateVolatility.  The
\* query has no ORDER BY: the rows come in any order.  null is <<>> and an
\* object is a one-element sequence.  The arithmetic is on doubles;
\* Math.pow(x, 2) is the product x * x.
\* --------------------------------------------------------------------------
AnyOrders(rows) ==
  {order \in [1..Cardinality(rows) -> rows] :
     \A i, j \in 1..Cardinality(rows) : i < j => order[i] # order[j]}

\* the query leaving out the rows created at endDate
getManyBeforeEnd(history, startDate, endDate) ==
  {[k \in DOMAIN order |-> history[order[k]]] :
     order \in AnyOrders({idx \in 1..Len(history) :
                            /\ startDate <= history[idx].createdAt
                            /\ history[idx].createdAt < endDate})}

\* createdAt BETWEEN :startDate AND :endDate
getMany(history, startDate, endDate) ==
  {[k \in DOMAIN order |-> history[order[k]]] :
     order \in AnyOrders({idx \in 1..Len(history) :
                            /\ startDate <= history[idx].createdAt
                            /\ history[idx].createdAt <= endDate})}

scoresOf(historyData) ==
  [k \in DOMAIN historyData |-> NumberOfScore(historyData[k].score)]

\* scores.reduce((sum, score) => sum + score, 0), from index k on
RECURSIVE ReduceSum(_, _, _)
ReduceSum(scores, k, sum) ==
  IF k > Len(scores) THEN sum ELSE ReduceSum(scores, k + 1, FAdd(sum, scores[k]))

meanOf(scores) == FDiv(ReduceSum(scores, 1, FZero), FromInt(Len(scores)))

MathPow2(x) == FMul(x, x)

\* scores.reduce((sum, score) => sum + Math.pow(score - mean, 2), 0)
RECURSIVE ReduceSquares(_, _, _, _)
ReduceSquares(scores, mean, k, sum) ==
  IF k > Len(scores) THEN sum
  ELSE ReduceSquares(scores, mean, k + 1,
                     FAdd(sum, MathPow2(FSub(scores[k], mean))))

\* the deviation of a sample: the squares are divided by one less
sampleVolatility(scores) ==
  IF Len(scores) < 2 THEN FZero
  ELSE FSqrt(FDiv(ReduceSquares(scores, meanOf(scores), 1, FZero),
                  FromInt(Len(scores) - 1)))

calculateVolatility(scores) ==
  IF Len(scores) < 2 THEN FZero
  ELSE FSqrt(FDiv(ReduceSquares(scores, meanOf(scores), 1, FZero),
                  FromInt(Len(scores))))

\* Math.max(...scores) and Math.min(...scores) of one score or more
RECURSIVE MathMax(_, _, _)
MathMax(scores, k, best) ==
  IF k > Len(scores) THEN best ELSE MathMax(scores, k + 1, FMax(best, scores[k]))

RECURSIVE MathMin(_, _, _)
MathMin(scores, k, best) ==
  IF k > Len(scores) THEN best ELSE MathMin(scores, k + 1, FMin(best, scores[k]))

\* the average cut to the integer below
averageTruncated(scores) == MathRound(FSub(meanOf(scores), Dec(1, 2)))

\* Math.round(avgScore)
averageOf(scores) == MathRound(meanOf(scores))

\* acc[record.status] = (acc[record.status] || 0) + 1
statusDistribution(historyData) ==
  [status \in {historyData[k].status : k \in DOMAIN historyData} |->
     Cardinality({k \in DOMAIN historyData : historyData[k].status = status})]

statisticsOf(scores) ==
  [average    |-> averageOf(scores),
   maximum    |-> MathMax(scores, 2, scores[1]),
   minimum    |-> MathMin(scores, 2, scores[1]),
   volatility |-> calculateVolatility(scores)]

\* historyData is what the query returned
getAggregatedStats(historyData, startDate, endDate) ==
  IF Len(historyData) = 0 THEN <<>>
  ELSE <<[period       |-> [start |-> startDate, end |-> endDate,
                            days  |-> Len(historyData)],
          statistics   |-> statisticsOf(scoresOf(historyData)),
          distribution |-> statusDistribution(historyData)]>>

\* --------------------------------------------------------------------------
\* The statistics over the history: sentiment_history starts with the
\* records of the Friday before, the scheduled job runs on Monday 09:30,
\* and the statistics of a range are asked for.
\* --------------------------------------------------------------------------
StatsHistory ==
  {<<>>,
   <<PastRecord(5000, FridayRun)>>,
   <<PastRecord(4000, FridayRun), PastRecord(6000, FridayRun + 30)>>,
   <<PastRecord(5000, FridayRun), PastRecord(5000, FridayRun + 30),
     PastRecord(5000, FridayRun + 60)>>,
   <<PastRecord(4000, FridayRun), PastRecord(5000, FridayRun + 30),
     PastRecord(6000, FridayRun + 60)>>}

\* the ends of the ranges asked for
RangeInstants == {FridayRun, FridayRun + 30, FridayRun + 60, StartOfRun + 30}

InitStats ==
  /\ clock = StartOfRun + 30
  /\ inFlight = <<>>
  /\ stockCountCache = <<>>
  /\ environment \in {deployment \in Environments : deployment.database = "sqlite"}
  /\ marketData \in {<<>>, RowsOf("breadth", <<<<6000>>>>, StartOfRun)}
  /\ sentimentHistory \in StatsHistory
  /\ returned = <<>>
  /\ classification = <<>>
  /\ queries = <<>>

\* getAggregatedStats called by the API layer
QueryStats ==
  /\ Len(queries) < MaxQueries
  /\ \E startDate \in RangeInstants, endDate \in RangeInstants :
       \E historyData \in getMany(sentimentHistory, startDate, endDate) :
         queries' = Append(queries,
                      [op |-> "stats", start |-> startDate, end |-> endDate,
                       at |-> clock, rows |-> Len(sentimentHistory),
                       answer |-> getAggregatedStats(historyData, startDate, endDate)])
  /\ UNCHANGED <<clock, marketData, sentimentHistory, returned, classification>>
  /\ UNCHANGED <<inFlight, stockCountCache, environment>>

NextStats ==
  \/ aggregateSentimentData
  \/ AwaitFindOne
  \/ findOneRejects
  \/ AwaitSave
  \/ QueryStats

SpecStats == InitStats /\ [][NextStats]_vars

\* --------------------------------------------------------------------------
\* ValidationUtils.normalize(value, min, max), on doubles.  The raw value is
\* a decimal with one digit after the point, min and max are integers with
\* min < max.
\* --------------------------------------------------------------------------
\* the scaling without the test for the missing marker
normalizeScaled(value, min, max) ==
  FMax(FZero, FMin(FromInt(1), FDiv(FSub(value, min), FSub(max, min))))

normalize(value, min, max) ==
  IF FEq(value, MinusOne) THEN MinusOne
  ELSE FMax(FZero, FMin(FromInt(1), FDiv(FSub(value, min), FSub(max, min))))

\* raw values in tenths, the missing marker -1 = -10 tenths among them
RawTenths == -20 .. 260

\* <<min, max>>
NormalizeRanges == {<<0, 1>>, <<10, 20>>, <<-10, 10>>, <<10, 25>>}

\* the call to come is the only entry of queries, its answer yet to be given
InitNormalize ==
  /\ clock = StartOfRun
  /\ inFlight = <<>>
  /\ stockCountCache = <<>>
  /\ environment = ShanghaiDefault
  /\ marketData = <<>>
  /\ sentimentHistory = <<>>
  /\ returned = <<>>
  /\ classification = <<>>
  /\ \E tenths \in RawTenths, range \in NormalizeRanges :
       queries = <<[op |-> "raw", tenths |-> tenths,
                    min |-> range[1], max |-> range[2], answer |-> FZero]>>

NormalizeValue ==
  /\ Len(queries) = 1
  /\ queries[1].op = "raw"
  /\ queries' = <<[queries[1] EXCEPT
                     !.op = "normalize",
                     !.answer = normalize(Dec(queries[1].tenths, 10),
                                          FromInt(queries[1].min),
                                          FromInt(queries[1].max))]>>
  /\ UNCHANGED <<clock, marketData, sentimentHistory, returned, classification>>
  /\ UNCHANGED <<inFlight, stockCountCache, environment>>

NextNormalize == NormalizeValue

SpecNormalize == InitNormalize /\ [][NextNormalize]_vars

\* --------------------------------------------------------------------------
\* The collectors and their normalizers, on doubles.
\* --------------------------------------------------------------------------
\* getEastmoneyMarketBreadthData: risingPercent of the counted stocks
risingPercent(risingCount, totalCount) ==
  IF totalCount > 0 THEN FDiv(FromInt(risingCount), FromInt(totalCount)) ELSE FZero

normalizeBreadthValue(ratio) == FMax(FZero, FMin(FromInt(1), ratio))

\* avgVolume * 2, avgVolume = 500000000000
TwiceAvgVolume == FMul(FMul(FromInt(500000), FromInt(1000000)), FromInt(2))

normalizeVolumeValue(volume) ==
  FMax(FZero, FMin(FromInt(1), FDiv(volume, TwiceAvgVolume)))

\* parseVolumeFromSina of the two responses and their total; lots is the
\* number matched by (\d+)
totalVolume(shanghaiLots, shenzhenLots) ==
  FAdd(FMul(shanghaiLots, FromInt(100)), FMul(shenzhenLots, FromInt(100)))

\* VIXUtils.  An index history is [length, finite, historical, implied]:
\* the number of closing prices the fetcher returned, whether they are all
\* finite, and the two volatilities the code computes from their log
\* returns when they are.  Math.log is a library approximation and is not
\* computed here, so a history of finite prices is given by the two values
\* its returns lead to.  The fetchers keep a price when
\* !isNaN(closePrice) && closePrice > 0, which holds of Infinity, the value
\* parseFloat gives for a text like 1e999.  calculateLogReturns gives
\* Infinity for the return into such a price and -Infinity for the return
\* out of it (NaN between two of them), so the mean of the returns is
\* Infinity, -Infinity or NaN, ret - meanReturn is NaN for one return at
\* least, and both variances are NaN whatever the other prices are.

\* Math.sqrt(variance * 252) * 100 of the sample variance of the returns
calculateHistoricalVolatility(history) ==
  IF history.finite THEN history.historical ELSE NaN

\* the same of the exponentially weighted variance
calculateImpliedVolatility(history) ==
  IF history.finite THEN history.implied ELSE NaN

weightedVolatility(historical, implied) ==
  FAdd(FMul(historical, Dec(3, 10)), FMul(implied, Dec(7, 10)))

calculateShanghaiVIX(history) ==
  IF history.length < 30 THEN MinusOne
  ELSE FMax(FromInt(10),
            FMin(FromInt(50),
                 weightedVolatility(calculateHistoricalVolatility(history),
                                    calculateImpliedVolatility(history))))

calculateShenzhenVIX(history) ==
  IF history.length < 30 THEN MinusOne
  ELSE FMax(FromInt(12),
            FMin(FromInt(55),
                 FMul(weightedVolatility(calculateHistoricalVolatility(history),
                                         calculateImpliedVolatility(history)),
                      Dec(112, 100))))

\* the weighted index without its limits
compositeVIXUnclamped(shanghaiVIX, shenzhenVIX) ==
  IF FEq(shanghaiVIX, MinusOne) \/ FEq(shenzhenVIX, MinusOne) THEN MinusOne
  ELSE FAdd(FMul(shanghaiVIX, Dec(6, 10)), FMul(shenzhenVIX, Dec(4, 10)))

calculateCompositeVIX(shanghaiVIX, shenzhenVIX) ==
  IF FEq(shanghaiVIX, MinusOne) \/ FEq(shenzhenVIX, MinusOne) THEN MinusOne
  ELSE FMax(FromInt(10),
            FMin(FromInt(50),
                 FAdd(FMul(shanghaiVIX, Dec(6, 10)), FMul(shenzhenVIX, Dec(4, 10)))))

\* parsedData.compositeVIX: -1, or Math.round(compositeVIX * 100) / 100
parsedCompositeVIX(compositeVIX) ==
  IF FEq(compositeVIX, MinusOne) THEN MinusOne
  ELSE FDiv(roundedNumber(FMul(compositeVIX, FromInt(100))), FromInt(100))

normalizeVIXValue(vix) ==
  FMax(FZero, FMin(FromInt(1), FDiv(FSub(vix, FromInt(10)), FromInt(50 - 10))))

\* the normalizer handed to executeDataCollection by collectVIXData
vixNormalizer(compositeVIX) ==
  IF FEq(compositeVIX, MinusOne) THEN MinusOne ELSE normalizeVIXValue(compositeVIX)

\* --------------------------------------------------------------------------
\* The collectors run and the index is calculated on demand.
\* --------------------------------------------------------------------------
\* <<risingCount, totalCount>> counted by the breadth fetcher; 1251 of 5003 is
\* 0.25004997..., just over the fear threshold of the index in hundredths
BreadthCounts == {<<0, 0>>, <<1, 3>>, <<1251, 5003>>, <<3, 4>>, <<4, 4>>}

\* <<lots, lots>> matched in the two responses: none traded, 400 million
\* each, 10 billion and 400 million
LotsInputs ==
  {<<FZero, FZero>>,
   <<FromInt(400000000), FromInt(400000000)>>,
   <<FMul(FromInt(2000000000), FromInt(5)), FromInt(400000000)>>}

\* a history of finite prices and one holding a price that is not finite
PriceHistory(length, historical, implied) ==
  [length |-> length, finite |-> TRUE, historical |-> historical, implied |-> implied]

OverflowingHistory(length) ==
  [length |-> length, finite |-> FALSE, historical |-> NaN, implied |-> NaN]

\* the Shanghai and the Shenzhen history of one run: a short one, three
\* pairs with volatilities below, inside and above the limits, a price that
\* is not finite among 30 in either history, and one among 29
IndexHistories ==
  {<<PriceHistory(29, FromInt(20), FromInt(20)), PriceHistory(30, FromInt(20), FromInt(20))>>,
   <<PriceHistory(30, Dec(5, 1), Dec(45, 10)), PriceHistory(30, Dec(6, 1), Dec(5, 1))>>,
   <<PriceHistory(30, Dec(1830, 100), Dec(2575, 100)),
     PriceHistory(30, Dec(2210, 100), Dec(2890, 100))>>,
   <<PriceHistory(30, FromInt(80), FromInt(95)), PriceHistory(30, FromInt(70), FromInt(99))>>,
   <<OverflowingHistory(30), PriceHistory(30, FromInt(20), FromInt(20))>>,
   <<PriceHistory(30, FromInt(20), FromInt(20)), OverflowingHistory(30)>>,
   <<OverflowingHistory(29), PriceHistory(30, FromInt(20), FromInt(20))>>}

\* what a collector hands to executeDataCollection: the type, the fetched
\* number the normalizer reads and the normalized value
CollectorRuns ==
  {[dataType |-> "breadth", parsedData |-> risingPercent(c[1], c[2]),
    normalizedValue |-> <<normalizeBreadthValue(risingPercent(c[1], c[2]))>>] :
     c \in BreadthCounts}
  \cup
  {[dataType |-> "volume", parsedData |-> totalVolume(lots[1], lots[2]),
    normalizedValue |-> <<normalizeVolumeValue(totalVolume(lots[1], lots[2]))>>] :
     lots \in LotsInputs}
  \cup
  {[dataType |-> "vix",
    parsedData |-> parsedCompositeVIX(calculateCompositeVIX(
                     calculateShanghaiVIX(h[1]), calculateShenzhenVIX(h[2]))),
    normalizedValue |-> <<vixNormalizer(parsedCompositeVIX(calculateCompositeVIX(
                            calculateShanghaiVIX(h[1]), calculateShenzhenVIX(h[2]))))>>] :
     h \in IndexHistories}
  \cup
  {[dataType |-> "margin", parsedData |-> MinusOne, normalizedValue |-> <<MinusOne>>]}
  \cup
  {[dataType |-> dataType, parsedData |-> FZero, normalizedValue |-> <<>>] :
     dataType \in {"breadth", "volume", "vix"}}

InitCollect ==
  /\ clock = StartOfRun + 30
  /\ inFlight = <<>>
  /\ stockCountCache = <<>>
  /\ environment \in {deployment \in Environments : deployment.zoneLag = 0}
  /\ marketData = <<>>
  /\ sentimentHistory = <<>>
  /\ returned = <<>>
  /\ classification = <<>>
  /\ queries = <<>>

\* collectMarketBreadthData, collectVolumeData, collectVIXData or
\* collectMarginData, whose fetcher catches the failure of getMarginData and
\* returns marginRatio -1
CollectData ==
  /\ Len(queries) < MaxRecords
  /\ \E run \in CollectorRuns, saveThrows \in BOOLEAN, errorSaveThrows \in BOOLEAN :
       \E outcome \in {executeDataCollectionOutcome(run.dataType, run.parsedData,
                         run.normalizedValue, clock, saveThrows, errorSaveThrows,
                         environment.database)} :
         /\ marketData' = marketData \o outcome.saved
         /\ queries' = Append(queries,
                         [op |-> "collect", dataType |-> run.dataType,
                          normalized |-> run.normalizedValue,
                          saveThrew |->
                            /\ run.normalizedValue # <<>>
                            /\ \/ saveThrows
                               \/ insertRejected(run.normalizedValue[1], environment.database),
                          errorSaveThrew |->
                            /\ \/ run.normalizedValue = <<>>
                               \/ saveThrows
                               \/ insertRejected(run.normalizedValue[1], environment.database)
                            /\ errorSaveThrows,
                          rowsBefore |-> Len(marketData),
                          rows |-> Len(marketData) + Len(outcome.saved),
                          result |-> outcome.result])
  /\ UNCHANGED <<clock, sentimentHistory, returned, classification>>
  /\ UNCHANGED <<inFlight, stockCountCache, environment>>

\* the index calculated on demand, once
CalculateAfterCollection ==
  /\ Len(returned) + Len(inFlight) < MaxQueries
  /\ CalculateOnDemand

NextCollect ==
  \/ CollectData
  \/ CalculateAfterCollection
  \/ AwaitFindOne
  \/ findOneRejects

SpecCollect == InitCollect /\ [][NextCollect]_vars

\* --------------------------------------------------------------------------
\* SentimentController.getCurrentSentiment, the current-sentiment query of
\* the API: it awaits DataAggregationService.calculateCurrentSentiment and
\* returns what that returns, so the query is a call of the calculation in
\* flight, answered by AwaitFindOne after the last findOne, or with the
\* error by findOneRejects.
\* --------------------------------------------------------------------------
getCurrentSentiment ==
  /\ Len(queries) + Len(inFlight) < MaxQueries
  /\ Len(inFlight) < MaxInFlight
  /\ inFlight' = Append(inFlight, enteredCall("api", marketData, clock))
  /\ UNCHANGED <<clock, marketData, sentimentHistory, returned, classification, queries>>
  /\ UNCHANGED <<stockCountCache, environment>>

NextCurrent ==
  \/ Tick
  \/ executeDataCollection
  \/ getCurrentSentiment
  \/ AwaitFindOne
  \/ findOneRejects

SpecCurrent == Init /\ [][NextCurrent]_vars

\* --------------------------------------------------------------------------
\* The calculation on demand while the collection runs: no time passes and
\* no job is scheduled.
\* --------------------------------------------------------------------------
InitSnapshot ==
  /\ clock = OpeningTime
  /\ inFlight = <<>>
  /\ stockCountCache = <<>>
  /\ environment \in Environments
  /\ marketData = <<>>
  /\ sentimentHistory = <<>>
  /\ returned = <<>>
  /\ classification = <<>>
  /\ queries = <<>>

NextSnapshot ==
  \/ executeDataCollection
  \/ CalculateOnDemand
  \/ AwaitFindOne
  \/ findOneRejects

SpecSnapshot == InitSnapshot /\ [][NextSnapshot]_vars

\* --------------------------------------------------------------------------
\* ValidationUtils.validateIndicators beside the weighting loop of the
\* aggregator: an indicator map over the five types is drawn, each value -1
\* or a reading of [0, 1] (in ten-thousandths), and both are applied to it
\* with the weight table of the service.
\* --------------------------------------------------------------------------
\* -1, 0, 0.6, 1
IndicatorInputs == {-10000, 0, 6000, 10000}

\* typeof indicators[key] === 'number': the indicators are doubles
IsNumber(value) == DOMAIN value = DOMAIN FZero

\* the helper counting the sentinel as a reading
RECURSIVE validateEveryIndicator(_, _, _, _)
validateEveryIndicator(indicators, weightTable, idx, acc) ==
  IF idx > Len(WeightKeys) THEN acc
  ELSE LET key == WeightKeys[idx]
       IN  IF IsNumber(indicators[key])
           THEN validateEveryIndicator(indicators, weightTable, idx + 1,
                  [validCount  |-> acc.validCount + 1,
                   totalWeight |-> FAdd(acc.totalWeight, weightTable[key]),
                   weightedSum |-> FAdd(acc.weightedSum, FMul(indicators[key], weightTable[key]))])
           ELSE validateEveryIndicator(indicators, weightTable, idx + 1, acc)

\* the forEach of validateIndicators over Object.keys(weights), from key
\* number idx on
RECURSIVE validateIndicators(_, _, _, _)
validateIndicators(indicators, weightTable, idx, acc) ==
  IF idx > Len(WeightKeys) THEN acc
  ELSE LET key == WeightKeys[idx]
       IN  IF ~FEq(indicators[key], MinusOne) /\ IsNumber(indicators[key])
           THEN validateIndicators(indicators, weightTable, idx + 1,
                  [validCount  |-> acc.validCount + 1,
                   totalWeight |-> FAdd(acc.totalWeight, weightTable[key]),
                   weightedSum |-> FAdd(acc.weightedSum, FMul(indicators[key], weightTable[key]))])
           ELSE validateIndicators(indicators, weightTable, idx + 1, acc)

\* let validCount = 0; let totalWeight = 0; let weightedSum = 0
NothingValidated == [validCount |-> 0, totalWeight |-> FZero, weightedSum |-> FZero]

\* let totalWeight = 0; let weightedSum = 0; let validIndicatorCount = 0
NothingAccumulated == [weightedSum |-> FZero, totalWeight |-> FZero, validIndicatorCount |-> 0]

indicatorsOf(stored) == [key \in DOMAIN stored |-> Number(stored[key])]

InitValidate ==
  /\ clock = StartOfRun
  /\ inFlight = <<>>
  /\ stockCountCache = <<>>
  /\ environment = ShanghaiDefault
  /\ marketData = <<>>
  /\ sentimentHistory = <<>>
  /\ returned = <<>>
  /\ classification = <<>>
  /\ \E stored \in [{"vix", "breadth", "volume", "margin", "foreign"} -> IndicatorInputs] :
       queries = <<[op |-> "indicators", stored |-> stored]>>

\* both computations applied to the map drawn
ValidateIndicators ==
  /\ queries[1].op = "indicators"
  /\ queries' = <<[op          |-> "validate",
                   stored      |-> queries[1].stored,
                   validated   |-> validateIndicators(indicatorsOf(queries[1].stored), weights, 1, NothingValidated),
                   accumulated |-> Accumulate(indicatorsOf(queries[1].stored), 1, NothingAccumulated)]>>
  /\ UNCHANGED <<clock, marketData, sentimentHistory, returned, classification>>
  /\ UNCHANGED <<inFlight, stockCountCache, environment>>

NextValidate == ValidateIndicators

SpecValidate == InitValidate /\ [][NextValidate]_vars

\* --------------------------------------------------------------------------
\* VIXUtils.calculateCompositeVIX and VIXUtils.normalizeVIXValue alone: the
\* two index values are drawn, -1 or a whole number of points, the composite
\* of the pair is calculated and the first value is normalized.
\* --------------------------------------------------------------------------
\* -1, and 5, 10, ... 60
VIXInputs == {-1} \cup {5 * step : step \in 1..12}

InitVIX ==
  /\ clock = StartOfRun
  /\ inFlight = <<>>
  /\ stockCountCache = <<>>
  /\ environment = ShanghaiDefault
  /\ marketData = <<>>
  /\ sentimentHistory = <<>>
  /\ returned = <<>>
  /\ classification = <<>>
  /\ \E shanghaiVIX \in VIXInputs, shenzhenVIX \in VIXInputs :
       queries = <<[op |-> "vix", shanghaiVIX |-> shanghaiVIX, shenzhenVIX |-> shenzhenVIX,
                    compositeVIX |-> <<>>, normalized |-> <<>>]>>

CalculateCompositeVIX ==
  /\ queries[1].op = "vix"
  /\ queries[1].compositeVIX = <<>>
  /\ queries' = <<[queries[1] EXCEPT !.compositeVIX =
                     <<calculateCompositeVIX(FromInt(queries[1].shanghaiVIX),
                                             FromInt(queries[1].shenzhenVIX))>>]>>
  /\ UNCHANGED <<clock, marketData, sentimentHistory, returned, classification>>
  /\ UNCHANGED <<inFlight, stockCountCache, environment>>

NormalizeVIXValue ==
  /\ queries[1].op = "vix"
  /\ queries[1].normalized = <<>>
  /\ queries' = <<[queries[1] EXCEPT !.normalized =
                     <<normalizeVIXValue(FromInt(queries[1].shanghaiVIX))>>]>>
  /\ UNCHANGED <<clock, marketData, sentimentHistory, returned, classification>>
  /\ UNCHANGED <<inFlight, stockCountCache, environment>>

NextVIX ==
  \/ CalculateCompositeVIX
  \/ NormalizeVIXValue

SpecVIX == InitVIX /\ [][NextVIX]_vars

\* --------------------------------------------------------------------------
\* MarketDataService.getMarketDataSummary over the collected rows.  A query
\* of the repository may throw.  A row saved by saveSuccessResult carries
\* rawData.parsed, the object its collector parsed; it is named by the
\* position of the row.  A value that may be null is <<>> or <<value>>.
\* --------------------------------------------------------------------------
\* getLatestDataByType(dataType) with maxAge = 60: the possible rows
getLatestDataByType(store, dataType, nowTime) == findOne(store, dataType, nowTime - 60)

\* getMarketBreadth: parsedData.parsed of the latest row; <<>> when the
\* promise is rejected (the query threw, or no row was found)
getMarketBreadth(store, latestData, repositoryThrows) ==
  IF repositoryThrows \/ latestData = NoRecord THEN <<>>
  ELSE <<[parsed |-> latestData]>>

\* getVolumeRatio: ratio and currentVolume of the latest row; <<>> when the
\* promise is rejected
getVolumeRatio(store, latestData, repositoryThrows) ==
  IF repositoryThrows \/ latestData = NoRecord THEN <<>>
  ELSE <<[ratio |-> store[latestData].normalizedValue, currentVolume |-> latestData]>>

\* data ? { ...data, timestamp: now } : null
stamped(data, now) == IF data # <<>> THEN <<[data |-> data[1], timestamp |-> now]>> ELSE <<>>

\* the summary rejected when one of its sources is
summaryOfAllOrNothing(breadthData, volumeData, now) ==
  IF breadthData = <<>> \/ volumeData = <<>> THEN <<>>
  ELSE <<[breadth     |-> stamped(breadthData, now),
          volume      |-> stamped(volumeData, now),
          margin      |-> <<>>,
          foreign     |-> <<>>,
          vix         |-> <<>>,
          lastUpdated |-> <<now>>]>>

\* what getMarketDataSummary resolves to, the rejections of the two sources
\* having been caught and turned into null
summaryOf(breadthData, volumeData, now) ==
  <<[breadth     |-> stamped(breadthData, now),
     volume      |-> stamped(volumeData, now),
     margin      |-> <<>>,
     foreign     |-> <<>>,
     vix         |-> <<>>,
     lastUpdated |-> <<now>>]>>

\* the summary called: now is taken, and getMarketBreadth and getVolumeRatio
\* are started, each taking its cutoff and issuing its findOne; Promise.all
\* awaits both.  rowsAt will note how many rows market_data held when the
\* findOne of a source returned
getMarketDataSummary ==
  /\ Len(queries) < MaxQueries
  /\ queries' = Append(queries,
                  [op |-> "summary", at |-> clock, pending |-> {"breadth", "volume"},
                   rowsAt       |-> [breadth |-> 0, volume |-> 0],
                   breadthThrew |-> FALSE,
                   volumeThrew  |-> FALSE,
                   breadthData  |-> <<>>,
                   volumeData   |-> <<>>,
                   answer       |-> <<>>])
  /\ UNCHANGED <<clock, marketData, sentimentHistory, returned, classification>>
  /\ UNCHANGED <<inFlight, stockCountCache, environment>>

\* the query after the findOne of one of its sources has returned the row
\* latestData or thrown
sourceAnswered(query, dataType, latestData, repositoryThrows, store) ==
  IF dataType = "breadth"
  THEN [query EXCEPT !.pending = @ \ {"breadth"},
                     !.rowsAt.breadth = Len(store),
                     !.breadthThrew = repositoryThrows,
                     !.breadthData = getMarketBreadth(store, latestData, repositoryThrows)]
  ELSE [query EXCEPT !.pending = @ \ {"volume"},
                     !.rowsAt.volume = Len(store),
                     !.volumeThrew = repositoryThrows,
                     !.volumeData = getVolumeRatio(store, latestData, repositoryThrows)]

\* Promise.all resolves once both sources have settled
summaryResolved(query) ==
  IF query.pending # {} THEN query
  ELSE [query EXCEPT !.answer = summaryOf(query.breadthData, query.volumeData, query.at)]

\* the awaited findOne of one source of a summary returns or throws, in
\* either order of the two sources; the cutoff is that of the call
AwaitLatestData ==
  /\ \E query \in 1..Len(queries) :
       /\ queries[query].op = "summary"
       /\ \E dataType \in queries[query].pending :
            \E repositoryThrows \in BOOLEAN :
              \E latestData \in getLatestDataByType(marketData, dataType, queries[query].at) :
                queries' = [queries EXCEPT ![query] =
                              summaryResolved(sourceAnswered(@, dataType, latestData,
                                                             repositoryThrows, marketData))]
  /\ UNCHANGED <<clock, marketData, sentimentHistory, returned, classification>>
  /\ UNCHANGED <<inFlight, stockCountCache, environment>>

NextSummary ==
  \/ Tick
  \/ executeDataCollection
  \/ getMarketDataSummary
  \/ AwaitLatestData

SpecSummary == Init /\ [][NextSummary]_vars

\* --------------------------------------------------------------------------
\* aggregateSentimentData invoked at the bounds of the trading sessions and
\* on a weekend, whoever invokes it: the instant is drawn, market_data is
\* empty or holds a fresh breadth reading, and each invocation is recorded
\* with the numbers of history rows and of calculations before and after it.
\* --------------------------------------------------------------------------
\* 09:29, 09:30, 11:30, 11:31, 12:59, 13:00, 15:00, 15:01
SessionBounds ==
  {9 * 60 + 29, 9 * 60 + 30, 11 * 60 + 30, 11 * 60 + 31,
   12 * 60 + 59, 13 * 60, 15 * 60, 15 * 60 + 1}

\* those minutes of a Monday, of a Saturday and of the Sunday after
JobInstants == {day * MinutesPerDay + minute : day \in {1, 6, 7}, minute \in SessionBounds}

InitJob ==
  /\ clock \in JobInstants
  /\ inFlight = <<>>
  /\ stockCountCache = <<>>
  /\ environment \in {deployment \in Environments : deployment.database = "sqlite"}
  /\ marketData \in {<<>>, RowsOf("breadth", <<<<6000>>>>, clock - 30)}
  /\ sentimentHistory = <<>>
  /\ returned = <<>>
  /\ classification = <<>>
  /\ queries = <<>>

\* the handler invoked, whether or not an earlier invocation is still
\* awaiting: it returns at once outside trading time and enters the
\* calculation otherwise
invokeAggregateSentimentData ==
  /\ Len(queries) < MaxCalls
  /\ jobEntered
  /\ queries' = Append(queries,
                  [op |-> "job", at |-> clock, localTime |-> moment(clock),
                   entered |-> Len(inFlight') = Len(inFlight) + 1,
                   historyBefore |-> Len(sentimentHistory),
                   callsBefore   |-> Len(returned)])
  /\ UNCHANGED <<clock, marketData, sentimentHistory, returned, classification>>
  /\ UNCHANGED <<stockCountCache, environment>>

\* a minute passes, from one of the instants to the next
MinutePasses ==
  /\ clock \in JobInstants
  /\ clock + 1 \in JobInstants
  /\ clock' = clock + 1
  /\ UNCHANGED <<marketData, sentimentHistory, returned, classification, queries>>
  /\ UNCHANGED <<inFlight, stockCountCache, environment>>

NextJob ==
  \/ MinutePasses
  \/ invokeAggregateSentimentData
  \/ AwaitFindOne
  \/ findOneRejects
  \/ AwaitSave

SpecJob == InitJob /\ [][NextJob]_vars

\* --------------------------------------------------------------------------
\* DataCollectionService.getRealStockCount with its cache, and the page loop
\* of getEastmoneyMarketBreadthData.  Each awaited page request is a step.
\* stockCountCache is the Map of the service, from market to {count,
\* timestamp}; Date.now() is the clock, in minutes.  inFlight holds the calls
\* entered: the function, the market, the time of entry, the cache entry
\* found, the loop variables, the number of requests issued, and once the
\* call has returned its result and the cache entry of the market at that
\* moment.  served is the number of full pages the upstream is able to serve.
\* --------------------------------------------------------------------------
PAGE_SIZE == 100

\* if (page > 100) break
MAX_PAGES == 100

\* 24 * 60 * 60 * 1000 ms, in minutes
CACHE_DURATION == 24 * 60

STOCK_COUNTS == [sh_a |-> 2282, sz_a |-> 2870]

Markets == {"sh_a", "sz_a"}

\* what a page request yields: a full page, a page of one row, an empty
\* array, a body that is no array, or an exception of the request or of
\* JSON.parse
PageResponses == {"full", "short", "empty", "malformed", "throws"}

\* this.stockCountCache.get(market): <<>> for undefined
cacheGet(cache, market) == IF market \in DOMAIN cache THEN <<cache[market]>> ELSE <<>>

\* this.stockCountCache.set(market, entry)
cacheSet(cache, market, entry) ==
  [key \in DOMAIN cache \cup {market} |-> IF key = market THEN entry ELSE cache[key]]

\* the test with an entry of exactly 24 hours still valid
cacheValidAtExpiry(cached, now) ==
  cached # <<>> /\ now - cached[1].timestamp <= CACHE_DURATION

\* cached && (now - cached.timestamp) < this.CACHE_DURATION
cacheValid(cached, now) ==
  cached # <<>> /\ now - cached[1].timestamp < CACHE_DURATION

\* a call that has returned count, the cache holding entry for its market
returnedCount(call, count, threw, entry) ==
  [call EXCEPT !.hasMoreData = FALSE, !.threw = threw,
               !.result = <<count>>, !.cacheAtReturn = entry]

\* the call at its first await, or returned from the cache
enteredStockCount(cache, market, now, served) ==
  LET call == [fn |-> "getRealStockCount", market |-> market, now |-> now,
               cached |-> cacheGet(cache, market), served |-> served,
               page |-> 1, totalCount |-> 0, hasMoreData |-> TRUE, requests |-> 0,
               threw |-> FALSE, result |-> <<>>, cacheAtReturn |-> <<>>]
  IN  IF cacheValid(cacheGet(cache, market), now)
      THEN returnedCount(call, cacheGet(cache, market)[1].count, FALSE, cacheGet(cache, market))
      ELSE call

\* the loop stepping past its limit of pages
pageReadWithoutLimit(call, response, pageSize) ==
  [call EXCEPT !.requests = @ + 1,
               !.totalCount = @ + (IF response = "full" THEN pageSize
                                   ELSE IF response = "short" THEN 1 ELSE 0),
               !.hasMoreData = (response = "full"),
               !.page = IF response \in {"full", "short"} THEN @ + 1 ELSE @]

\* one turn of the while loop on the response of its request: the rows are
\* counted and the page advanced when the body is a non-empty array, and the
\* loop goes on after a full page unless page has passed the limit
pageRead(call, response, pageSize) ==
  LET counted == response \in {"full", "short"}
      page    == IF counted THEN call.page + 1 ELSE call.page
  IN  [call EXCEPT !.requests = @ + 1,
                   !.totalCount = @ + (IF response = "full" THEN pageSize
                                       ELSE IF response = "short" THEN 1 ELSE 0),
                   !.hasMoreData = (response = "full") /\ ~(page > MAX_PAGES),
                   !.page = page]

\* the responses the upstream can give to the next request of the call
responsesTo(call) ==
  IF call.page - 1 < call.served THEN PageResponses ELSE PageResponses \ {"full"}

\* the call after the response: still in the loop, or returned with the cache
\* set to the count and the time of entry; the default count after an
\* exception
stockCountAfter(call, response) ==
  IF response = "throws"
  THEN returnedCount([call EXCEPT !.requests = @ + 1], STOCK_COUNTS[call.market], TRUE,
                     <<[count |-> STOCK_COUNTS[call.market], timestamp |-> call.now]>>)
  ELSE IF pageRead(call, response, PAGE_SIZE).hasMoreData
       THEN pageRead(call, response, PAGE_SIZE)
       ELSE returnedCount(pageRead(call, response, PAGE_SIZE),
                          pageRead(call, response, PAGE_SIZE).totalCount, FALSE,
                          <<[count     |-> pageRead(call, response, PAGE_SIZE).totalCount,
                             timestamp |-> call.now]>>)

enterGetRealStockCount(limit, served) ==
  /\ Len(inFlight) < limit
  /\ \E market \in Markets :
       inFlight' = Append(inFlight, enteredStockCount(stockCountCache, market, clock, served))
  /\ UNCHANGED <<clock, marketData, sentimentHistory, returned, classification, queries>>
  /\ UNCHANGED <<stockCountCache, environment>>

\* the awaited request of getRealStockCount answered
awaitStockPage ==
  /\ \E call \in 1..Len(inFlight) :
       /\ inFlight[call].fn = "getRealStockCount"
       /\ inFlight[call].result = <<>>
       /\ \E response \in responsesTo(inFlight[call]) :
            /\ inFlight' = [inFlight EXCEPT ![call] = stockCountAfter(@, response)]
            /\ stockCountCache' =
                 IF stockCountAfter(inFlight[call], response).result = <<>>
                 THEN stockCountCache
                 ELSE cacheSet(stockCountCache, inFlight[call].market,
                               stockCountAfter(inFlight[call], response).cacheAtReturn[1])
  /\ UNCHANGED <<clock, marketData, sentimentHistory, returned, classification, queries>>
  /\ UNCHANGED environment

\* twelve hours pass
HalfDayPasses ==
  /\ clock + 720 <= StartOfRun + 720 * MaxTicks
  /\ clock' = clock + 720
  /\ UNCHANGED <<marketData, sentimentHistory, returned, classification, queries>>
  /\ UNCHANGED <<inFlight, stockCountCache, environment>>

InitStockCount ==
  /\ clock = StartOfRun
  /\ inFlight = <<>>
  /\ stockCountCache = <<>>
  /\ environment = ShanghaiDefault
  /\ marketData = <<>>
  /\ sentimentHistory = <<>>
  /\ returned = <<>>
  /\ classification = <<>>
  /\ queries = <<>>

\* up to MaxCalls calls, also concurrent, of an upstream of less than two
\* full pages
NextStockCount ==
  \/ HalfDayPasses
  \/ \E served \in {0, 1} : enterGetRealStockCount(MaxCalls, served)
  \/ awaitStockPage

SpecStockCount == InitStockCount /\ [][NextStockCount]_vars

\* getEastmoneyMarketBreadthData entered: const pageSize = 100, page = 1
enterGetEastmoneyMarketBreadthData ==
  /\ Len(inFlight) < MaxQueries
  /\ inFlight' = Append(inFlight,
                   [fn |-> "getEastmoneyMarketBreadthData", served |-> MAX_PAGES,
                    page |-> 1, totalCount |-> 0, hasMoreData |-> TRUE, requests |-> 0,
                    threw |-> FALSE, result |-> <<>>])
  /\ UNCHANGED <<clock, marketData, sentimentHistory, returned, classification, queries>>
  /\ UNCHANGED <<stockCountCache, environment>>

\* the call after the response: still in the loop, returned with its total,
\* or rejected with the exception rethrown
breadthDataAfter(call, response) ==
  IF response = "throws"
  THEN [call EXCEPT !.requests = @ + 1, !.hasMoreData = FALSE, !.threw = TRUE,
                    !.result = <<"rejected">>]
  ELSE IF pageRead(call, response, 100).hasMoreData
       THEN pageRead(call, response, 100)
       ELSE [pageRead(call, response, 100) EXCEPT
               !.result = <<pageRead(call, response, 100).totalCount>>]

\* the awaited request of getEastmoneyMarketBreadthData answered
awaitBreadthPage ==
  /\ \E call \in 1..Len(inFlight) :
       /\ inFlight[call].fn = "getEastmoneyMarketBreadthData"
       /\ inFlight[call].result = <<>>
       /\ \E response \in responsesTo(inFlight[call]) :
            inFlight' = [inFlight EXCEPT ![call] = breadthDataAfter(@, response)]
  /\ UNCHANGED <<clock, marketData, sentimentHistory, returned, classification, queries>>
  /\ UNCHANGED <<stockCountCache, environment>>

\* one call of either function, the upstream answering as it pleases
NextPages ==
  \/ enterGetRealStockCount(MaxQueries, MAX_PAGES)
  \/ awaitStockPage
  \/ enterGetEastmoneyMarketBreadthData
  \/ awaitBreadthPage

SpecPages == InitStockCount /\ [][NextPages]_vars

\* ==========================================================================
\* Properties
\* ==========================================================================

\* Reference arithmetic, exact and on integers.  An indicator is a stored
\* decimal(10,4): TenThousandths gives it back from the double.  The weights
\* 0.3, 0.25, 0.2, 0.15, 0.1 are 6, 5, 4, 3, 2 twentieths.
TenThousandths(x) == MathRound(FMul(x, FromInt(10000)))

WeightTwentieths == [vix |-> 6, breadth |-> 5, volume |-> 4, margin |-> 3, foreign |-> 2]

IndicatorTypes == {"vix", "breadth", "volume", "margin", "foreign"}

\* the indicators whose value is not the missing sentinel -1; NaN is not -1
ValidTypes(indicators) == {t \in IndicatorTypes : ~FEq(indicators[t], MinusOne)}

\* an indicator is NaN
HasNaN(indicators) == \E t \in IndicatorTypes : isNaN(indicators[t])

\* the score of a result as an integer, when it is a number
IntegerScore(r) == MathRound(r.score)

RECURSIVE SumOver(_, _)
SumOver(types, term) ==
  IF types = {} THEN 0
  ELSE LET t == CHOOSE u \in types : TRUE
       IN  term[t] + SumOver(types \ {t}, term)

\* S in 1/200000 and W in 1/20
ExactSum(indicators) ==
  SumOver(ValidTypes(indicators),
          [t \in IndicatorTypes |-> TenThousandths(indicators[t]) * WeightTwentieths[t]])
ExactWeight(indicators) == SumOver(ValidTypes(indicators), WeightTwentieths)

\* round(clamp(n / d, 0, 100)) for integers n and d > 0, halves rounded up
RoundClamped(n, d) == MaxOf(0, MinOf(100, (2 * n + d) \div (2 * d)))

\* round(clamp(100 * S / W, 0, 100))
ExactScore(indicators) == RoundClamped(ExactSum(indicators), 100 * ExactWeight(indicators))

\* the threshold class of an integer score
ThresholdClass(score) ==
  IF score <= 25 THEN "extreme_fear"
  ELSE IF score <= 40 THEN "fear"
  ELSE IF score <= 60 THEN "neutral"
  ELSE IF score <= 75 THEN "greed"
  ELSE "extreme_greed"

\* the results calculateCurrentSentiment has returned
Results == {returned[i].result : i \in 1..Len(returned)}

\* the indicators of spec's worked example: 0.2, 0.6, 0.7, 0.5, 0.3
IsExample(indicators) ==
  /\ ~HasNaN(indicators)
  /\ TenThousandths(indicators.vix) = 2000
  /\ TenThousandths(indicators.breadth) = 6000
  /\ TenThousandths(indicators.volume) = 7000
  /\ TenThousandths(indicators.margin) = 5000
  /\ TenThousandths(indicators.foreign) = 3000

\* C1: whenever at least one indicator is not -1, the score returned is
\* round(clamp(100 * S / W, 0, 100)) with S and W summed over exactly the
\* indicators that are not -1, under the weights 0.3, 0.25, 0.2, 0.15, 0.1
\* (a sum with a term that is NaN being NaN);
\* and the indicators 0.2, 0.6, 0.7, 0.5, 0.3 give score 46 and status neutral.
C1_ScoreIsRoundedWeightedAverage ==
  \A r \in Results :
    /\ ValidTypes(r.indicators) # {} =>
         IF HasNaN(r.indicators) THEN isNaN(r.score)
         ELSE ~isNaN(r.score) /\ IntegerScore(r) = ExactScore(r.indicators)
    /\ IsExample(r.indicators) => r.score = FromInt(46) /\ r.status = "neutral"

\* the worked example has been calculated
C1_ExampleCalculated == \E r \in Results : IsExample(r.indicators)

\* C2: a result with no valid indicator has score -1, status no_data, color
\* #999999, weightedSum 0 and totalWeight 0; any other result has an integer
\* score in 0..100 and a status other than no_data, whatever the stored
\* values, out-of-range ones included.
C2_NoDataOrScoreInRange ==
  \A r \in Results :
    IF r.calculationDetails.validIndicatorCount = 0
    THEN /\ r.score = MinusOne
         /\ r.status = "no_data"
         /\ r.color = "#999999"
         /\ FIsZero(r.calculationDetails.weightedSum)
         /\ FIsZero(r.calculationDetails.totalWeight)
    ELSE /\ ~isNaN(r.score)
         /\ r.score = FromInt(IntegerScore(r))
         /\ IntegerScore(r) \in 0..100
         /\ r.status # "no_data"

\* over a vix row whose column gave NaN back, the only reading, the result
\* has a score that is NaN, with status extreme_greed and one indicator
\* counted
C2_ScoreNotANumber ==
  \E r \in Results :
    /\ isNaN(r.indicators.vix)
    /\ r.calculationDetails.validIndicatorCount = 1
    /\ isNaN(r.calculationDetails.weightedSum)
    /\ isNaN(r.score)
    /\ r.status = "extreme_greed"

\* C3: in a result with at least one valid indicator the status is the
\* threshold class of the integer score returned, and color and action are
\* the table entries of that status.
C3_StatusIsClassOfReturnedScore ==
  \A r \in Results :
    r.calculationDetails.validIndicatorCount > 0 =>
      /\ ~isNaN(r.score)
      /\ r.status = ThresholdClass(IntegerScore(r))
      /\ r.color = SENTIMENT_COLORS[r.status]
      /\ r.action = ACTION_TEXTS[r.status]

\* the direct calls of getSentimentStatus that have returned
Classified == {c \in {classification[i] : i \in 1..Len(classification)} : c.info # <<>>}

\* C4: for every integer score in 0..100 getSentimentStatus returns
\* extreme_fear up to 25, fear up to 40, neutral up to 60, greed up to 75 and
\* extreme_greed above, bounds included, each with the color and action of
\* its status, and never no_data.
C4_ClassifierThresholdsInclusive ==
  \A c \in Classified :
    /\ c.info[1].status = ThresholdClass(c.score)
    /\ c.info[1].status # "no_data"
    /\ c.info[1].color = SENTIMENT_COLORS[ThresholdClass(c.score)]
    /\ c.info[1].action = ACTION_TEXTS[ThresholdClass(c.score)]

\* a score on a threshold has been classified
C4_BoundaryClassified ==
  \E c \in Classified : c.score = 40 /\ c.info[1].status = "fear"

\* the only valid indicator of a result, when there is exactly one
OnlyValid(indicators) == CHOOSE t \in ValidTypes(indicators) : TRUE

\* C5: when exactly one indicator is valid, with a value v in [0,1], the
\* score is round(100 * v) whichever indicator it is.
C5_SingleIndicatorScore ==
  \A r \in Results :
    (/\ Cardinality(ValidTypes(r.indicators)) = 1
     /\ ~HasNaN(r.indicators)
     /\ TenThousandths(r.indicators[OnlyValid(r.indicators)]) \in 0..10000)
    => /\ ~isNaN(r.score)
       /\ IntegerScore(r)
            = (2 * TenThousandths(r.indicators[OnlyValid(r.indicators)]) + 100) \div 200

\* round(clamp(100 * weightedSum / totalWeight, 0, 100)) in double arithmetic
Recomputed(details) ==
  roundedNumber(FMax(FromInt(0), FMin(FromInt(100),
    FMul(FDiv(details.weightedSum, details.totalWeight), FromInt(100)))))

\* C6: calculationDetails records the fixed weights, the indicators of the
\* result, the unrounded sum of value * weight over the valid indicators, the
\* sum of their weights and their number; and the score recomputed from
\* weightedSum and totalWeight is the score returned when an indicator is valid.
C6_DetailsAreAuditTrail ==
  \A r \in Results :
    /\ \A t \in IndicatorTypes :
         TenThousandths(r.calculationDetails.weights[t]) = 500 * WeightTwentieths[t]
    /\ r.calculationDetails.rawIndicators = r.indicators
    /\ r.calculationDetails.validIndicatorCount = Cardinality(ValidTypes(r.indicators))
    /\ MathRound(FMul(r.calculationDetails.totalWeight, FromInt(20))) = ExactWeight(r.indicators)
    /\ IF HasNaN(r.indicators) THEN isNaN(r.calculationDetails.weightedSum)
       ELSE /\ ~isNaN(r.calculationDetails.weightedSum)
            /\ MathRound(FMul(r.calculationDetails.weightedSum, FromInt(200000)))
                 = ExactSum(r.indicators)
    /\ r.calculationDetails.validIndicatorCount > 0 => Recomputed(r.calculationDetails) = r.score

\* --------------------------------------------------------------------------
\* market_data is only ever appended to, so the table a recorded call found
\* on entry is the first call.rows rows of marketData, and the rows of a type
\* its query of the type could read are the first call.rowsAt[type] rows of
\* the type.
\* --------------------------------------------------------------------------
StoreAt(call) == SubSeq(marketData, 1, call.rows)

RowsOfType(store, dataType) == SelectSeq(store, LAMBDA row : row.dataType = dataType)

RowsRead(call, dataType) == SubSeq(RowsOfType(marketData, dataType), 1, call.rowsAt[dataType])

\* the rows of the type that qualified when the call queried the type, and
\* the newest of them
QualifiedFor(call, dataType) ==
  {idx \in 1..Len(RowsRead(call, dataType)) :
     /\ RowsRead(call, dataType)[idx].isValid
     /\ RowsRead(call, dataType)[idx].createdAt > call.startedAt - 60}

NewestFor(call, dataType) ==
  {idx \in QualifiedFor(call, dataType) :
     \A other \in QualifiedFor(call, dataType) :
       RowsRead(call, dataType)[other].createdAt <= RowsRead(call, dataType)[idx].createdAt}

\* market_data held the same rows on entry and at every query of the call
OverOneStore(call) ==
  \A t \in DOMAIN call.rowsAt : call.rowsAt[t] = Len(RowsOfType(StoreAt(call), t))

Calls == {returned[i] : i \in 1..Len(returned)}

\* the rows of a type that are valid and created strictly later than one
\* hour before nowTime
Qualifying(store, dataType, nowTime) ==
  {idx \in 1..Len(store) :
     /\ store[idx].dataType = dataType
     /\ store[idx].isValid
     /\ store[idx].createdAt > nowTime - 60}

\* the newest of a set of rows
NewestOf(store, rows) ==
  {idx \in rows : \A other \in rows : store[other].createdAt <= store[idx].createdAt}

\* the number extractIndicatorValue reads from a row: -1 for a NULL column
StoredNumber(row) ==
  IF row.normalizedValue = <<>> THEN MinusOne ELSE columnValue(row.normalizedValue)

\* the fields of a result other than its timestamps and its dataFreshness
SameValues(r1, r2) ==
  /\ r1.score = r2.score
  /\ r1.status = r2.status
  /\ r1.color = r2.color
  /\ r1.action = r2.action
  /\ r1.indicators = r2.indicators
  /\ r1.calculationDetails.weights = r2.calculationDetails.weights
  /\ r1.calculationDetails.rawIndicators = r2.calculationDetails.rawIndicators
  /\ r1.calculationDetails.weightedSum = r2.calculationDetails.weightedSum
  /\ r1.calculationDetails.totalWeight = r2.calculationDetails.totalWeight
  /\ r1.calculationDetails.validIndicatorCount = r2.calculationDetails.validIndicatorCount

\* two dataFreshness objects alike in all but the timestamp of their entries
SameAges(d1, d2) ==
  /\ DOMAIN d1 = DOMAIN d2
  /\ \A t \in DOMAIN d1 :
       /\ d1[t].minutesOld = d2[t].minutesOld
       /\ d1[t].isFresh = d2[t].isFresh

\* the readings and the creation times of the newest rows of the type that
\* qualified when the call queried the type
SelectedReadings(call, dataType) ==
  {StoredNumber(RowsRead(call, dataType)[idx]) : idx \in NewestFor(call, dataType)}

SelectedTimes(call, dataType) ==
  {RowsRead(call, dataType)[idx].createdAt : idx \in NewestFor(call, dataType)}

\* for every type the newest qualifying rows of the two calls carry one and
\* the same reading, or neither call has a qualifying row
SameSelection(c1, c2) ==
  \A t \in IndicatorTypes :
    /\ SelectedReadings(c1, t) = SelectedReadings(c2, t)
    /\ Cardinality(SelectedReadings(c1, t)) <= 1

\* every entry of the dataFreshness of a result has the creation time of a
\* row selected as timestamp, the minutes from it to the time of the
\* calculation as minutesOld, and minutesOld < 30 as isFresh
AgesFromTimeOfCall(call) ==
  \A t \in DOMAIN call.result.calculationDetails.dataFreshness :
    /\ call.result.calculationDetails.dataFreshness[t].timestamp \in SelectedTimes(call, t)
    /\ call.result.calculationDetails.dataFreshness[t].minutesOld
         = call.result.calculationDetails.calculatedAt
             - call.result.calculationDetails.dataFreshness[t].timestamp
    /\ call.result.calculationDetails.dataFreshness[t].isFresh
         = (call.result.calculationDetails.dataFreshness[t].minutesOld < 30)

\* C7 as stated: two calls of calculateCurrentSentiment over the same stored
\* readings, scheduled or on demand, return the same score, status, color,
\* action, indicators and calculationDetails, the fields timestamp and
\* calculatedAt and the timestamp of the dataFreshness entries apart.
C7_SameStoreSameResult ==
  \A c1, c2 \in Calls :
    (c1.rows = c2.rows /\ OverOneStore(c1) /\ OverOneStore(c2)) =>
      /\ SameValues(c1.result, c2.result)
      /\ SameAges(c1.result.calculationDetails.dataFreshness,
                  c2.result.calculationDetails.dataFreshness)

\* C7 amended: two calls, scheduled or on demand, over whatever stores and at
\* whatever times, for which the newest valid rows of every type created
\* within the hour before the call carry one and the same reading, or there
\* are none for either call, return the same score, status, color, action,
\* indicators, weights, rawIndicators, weightedSum, totalWeight and
\* validIndicatorCount, and dataFreshness entries for the same types; and in
\* every result the entries of dataFreshness have the creation time of the
\* row used as timestamp, the minutes from it to the time of the
\* calculation as minutesOld and minutesOld < 30 as isFresh.
C7_SameSelectionSameResult ==
  /\ \A c1, c2 \in Calls :
       SameSelection(c1, c2) =>
         /\ SameValues(c1.result, c2.result)
         /\ DOMAIN c1.result.calculationDetails.dataFreshness
              = DOMAIN c2.result.calculationDetails.dataFreshness
  /\ \A c \in Calls : AgesFromTimeOfCall(c)

\* the scheduler and a caller on demand have calculated over the same stored
\* readings half an hour apart, with the same row selected and an indicator
\* valid: the results agree in their values, and the row is fresh for the
\* one and not for the other
C7_TwoTriggersSameReadings ==
  \E c1, c2 \in Calls :
    /\ c1.trigger = "saved"
    /\ c2.trigger = "demand"
    /\ c1.startedAt # c2.startedAt
    /\ c1.rows = c2.rows
    /\ OverOneStore(c1) /\ OverOneStore(c2)
    /\ SameSelection(c1, c2)
    /\ c1.result.calculationDetails.validIndicatorCount > 0
    /\ SameValues(c1.result, c2.result)
    /\ \E t \in DOMAIN c1.result.calculationDetails.dataFreshness :
         /\ c1.result.calculationDetails.dataFreshness[t].isFresh
         /\ ~c2.result.calculationDetails.dataFreshness[t].isFresh

\* C8: every indicator of a result is the reading of a newest row among the
\* rows of its type that are valid and were created strictly later than one
\* hour before the call was entered, of those stored when the type was
\* queried, and is -1 when there is no such row or its normalized value is
\* NULL.
C8_NewestValidFreshRowUsed ==
  \A c \in Calls : \A t \in IndicatorTypes :
    IF QualifiedFor(c, t) = {}
    THEN c.result.indicators[t] = MinusOne
    ELSE \E idx \in NewestFor(c, t) :
           c.result.indicators[t] = StoredNumber(RowsRead(c, t)[idx])

\* with a valid row of a type and a later invalid one stored, a call has read
\* the valid row, and a call entered when that row was exactly one hour old
\* has read -1
C8_InvalidAndStalePassedOver ==
  \E c1, c2 \in Calls : \E t \in IndicatorTypes : \E i, j \in 1..Len(RowsRead(c1, t)) :
    /\ c1.rowsAt[t] = c2.rowsAt[t]
    /\ RowsRead(c1, t)[i].isValid
    /\ ~RowsRead(c1, t)[j].isValid
    /\ RowsRead(c1, t)[i].createdAt < RowsRead(c1, t)[j].createdAt
    /\ RowsRead(c1, t)[i].createdAt = c2.startedAt - 60
    /\ StoredNumber(RowsRead(c1, t)[i]) # MinusOne
    /\ c1.result.indicators[t] = StoredNumber(RowsRead(c1, t)[i])
    /\ c2.result.indicators[t] = MinusOne

\* the types of which a collection run had failed before the call and of
\* which no row saved by a successful run qualifies
FailedTypes(c) ==
  {t \in IndicatorTypes :
     /\ \E idx \in 1..c.rows :
          StoreAt(c)[idx].dataType = t /\ StoreAt(c)[idx].errorMessage # <<>>
     /\ \A idx \in QualifiedFor(c, t) : RowsRead(c, t)[idx].errorMessage # <<>>}

\* C9: once a collection run of a type has failed and no other fresh valid
\* row of the type exists, a call of calculateCurrentSentiment returns a
\* result in which the indicator of the type is -1 and counts neither as a
\* valid indicator nor in the total weight.
C9_FailedCollectionIsMissingReading ==
  \A c \in Calls : \A t \in FailedTypes(c) :
    /\ c.result.indicators[t] = MinusOne
    /\ c.result.calculationDetails.validIndicatorCount
         = Cardinality({u \in IndicatorTypes \ {t} :
                          /\ QualifiedFor(c, u) # {}
                          /\ \E idx \in NewestFor(c, u) :
                               c.result.indicators[u] = StoredNumber(RowsRead(c, u)[idx])
                          /\ c.result.indicators[u] # MinusOne})
    /\ MathRound(FMul(c.result.calculationDetails.totalWeight, FromInt(20)))
         = SumOver(ValidTypes(c.result.indicators) \ {t}, WeightTwentieths)

\* a call after a failed run of one type has scored on the other type alone
C9_ScoredWithoutFailedType ==
  \E c \in Calls :
    /\ FailedTypes(c) # {}
    /\ c.result.calculationDetails.validIndicatorCount = 1
    /\ FLe(FZero, c.result.score)

\* the scheduled runs whose save has succeeded
SavedRuns(calls) == Cardinality({i \in 1..Len(calls) : calls[i].trigger = "saved"})

\* C10: every step keeps the records of the sentiment history as they are
\* and in place, and adds exactly one record for a scheduled run that
\* completes, none otherwise.
C10_HistoryAppendOnly ==
  [][/\ Len(sentimentHistory') = Len(sentimentHistory) + SavedRuns(returned') - SavedRuns(returned)
     /\ SubSeq(sentimentHistory', 1, Len(sentimentHistory)) = sentimentHistory]_vars

\* two scheduled runs of one trading date have each left their record
C10_TwoRecordsSameDay ==
  /\ Len(sentimentHistory) = 2
  /\ sentimentHistory[1].tradingDate = sentimentHistory[2].tradingDate
  /\ SavedRuns(returned) = 2

\* the call recorded by a step, if the step is a scheduled run
RunOf(before, after) ==
  IF Len(after) = Len(before) + 1 /\ after[Len(after)].trigger \in {"saved", "failed"}
  THEN <<after[Len(after)].trigger>> ELSE <<>>

\* C11: a scheduled run whose save fails is logged as failed and leaves the
\* history as it was; a run is logged as completed only when its record has
\* been appended; and the job remains schedulable afterwards.
C11_SaveFailureSurfacedAndContained ==
  [][/\ RunOf(returned, returned') = <<"failed">> => sentimentHistory' = sentimentHistory
     /\ RunOf(returned, returned') = <<"saved">> =>
          /\ Len(sentimentHistory') = Len(sentimentHistory) + 1
          /\ sentimentHistory'[Len(sentimentHistory')].createdAt = clock]_vars

\* a run whose save failed has left no record, and the next run has saved
C11_RunAfterFailedRunSaved ==
  /\ Len(returned) = 2
  /\ returned[1].trigger = "failed"
  /\ returned[2].trigger = "saved"
  /\ Len(sentimentHistory) = 1
  /\ sentimentHistory[1].createdAt = returned[2].at

\* --------------------------------------------------------------------------
\* sentiment_history is only ever appended to, so the table a recorded query
\* read is the first query.rows rows of sentimentHistory.
\* --------------------------------------------------------------------------

\* the queries of the history that have been answered
HistoryQueries ==
  {q \in {queries[i] : i \in 1..Len(queries)} : q.op = "history" /\ q.answered}

\* the records captured strictly later than days days before the query
NewerThan(query) ==
  {idx \in 1..query.rows : sentimentHistory[idx].createdAt > query.at - query.days * 24 * 60}

\* an item of an answer is the projection of a record
ProjectionOf(item, record) ==
  /\ item.date = record.tradingDate
  /\ MathRound(FMul(item.score, FromInt(100))) = record.score
  /\ item.status = record.status

\* the records appended while the query was awaited and captured later than
\* the call
CapturedSinceCall(query) ==
  {idx \in (query.rowsOnEntry + 1)..query.rows : sentimentHistory[idx].createdAt > query.at}

\* C12 as stated: an answer of getHistorySentimentData(days) holds exactly
\* the records captured strictly later than days days before the call, in
\* ascending order of capture, each as {date, score, status}; it is empty
\* when no record qualifies and when days = 0.
C12_HistoryNewerThanDaysAscending ==
  \A q \in HistoryQueries :
    /\ Len(q.answer) = Cardinality(NewerThan(q))
    /\ \E order \in [1..Len(q.answer) -> NewerThan(q)] :
         /\ \A i, j \in 1..Len(q.answer) :
              i < j => /\ order[i] # order[j]
                       /\ sentimentHistory[order[i]].createdAt
                            <= sentimentHistory[order[j]].createdAt
         /\ \A k \in 1..Len(q.answer) : ProjectionOf(q.answer[k], sentimentHistory[order[k]])
    /\ q.days = 0 => q.answer = <<>>

\* C12: an answer of getHistorySentimentData(days) holds exactly the records
\* the table held when the query was answered that were captured strictly
\* later than days days before the call, in ascending order of capture, each
\* as {date, score, status}; it is empty when no record qualifies, and with
\* days = 0 it holds the records captured after the call, none when nothing
\* was appended while the query was awaited.
C12_HistoryNewerThanStartDate ==
  \A q \in HistoryQueries :
    /\ Len(q.answer) = Cardinality(NewerThan(q))
    /\ \E order \in [1..Len(q.answer) -> NewerThan(q)] :
         /\ \A i, j \in 1..Len(q.answer) :
              i < j => /\ order[i] # order[j]
                       /\ sentimentHistory[order[i]].createdAt
                            <= sentimentHistory[order[j]].createdAt
         /\ \A k \in 1..Len(q.answer) : ProjectionOf(q.answer[k], sentimentHistory[order[k]])
    /\ NewerThan(q) = {} => q.answer = <<>>
    /\ q.days = 0 => Len(q.answer) = Cardinality(CapturedSinceCall(q))
    /\ (q.days = 0 /\ q.rows = q.rowsOnEntry) => q.answer = <<>>

\* a query for three days has left out a record captured exactly three days
\* before and returned the two later ones, the older first
C12_BoundaryRecordLeftOut ==
  \E q \in HistoryQueries :
    /\ q.days = 3
    /\ q.rows = 3
    /\ sentimentHistory[1].createdAt = q.at - 3 * 24 * 60
    /\ Len(q.answer) = 2
    /\ q.answer[1].date # q.answer[2].date
    /\ q.answer[2].date = sentimentHistory[3].tradingDate

\* C13: every item returned by getHistorySentimentData after scheduled runs
\* has a score from MIN_SCORE = 0 to MAX_SCORE = 100.
C13_HistoryScoresInScale ==
  \A q \in HistoryQueries : \A k \in 1..Len(q.answer) :
    /\ FLe(FromInt(0), q.answer[k].score)
    /\ FLe(q.answer[k].score, FromInt(100))

\* --------------------------------------------------------------------------
\* Statistics of a range.  The reference values are exact, on the integer
\* scores: a stored score is a whole number of points, in hundredths.
\* --------------------------------------------------------------------------
StatsQueries == {q \in {queries[i] : i \in 1..Len(queries)} : q.op = "stats"}

\* the records captured from query.start to query.end, both included
InRange(query) ==
  {idx \in 1..query.rows :
     /\ query.start <= sentimentHistory[idx].createdAt
     /\ sentimentHistory[idx].createdAt <= query.end}

PointsOf(idx) == sentimentHistory[idx].score \div 100

RECURSIVE SumPoints(_)
SumPoints(rows) ==
  IF rows = {} THEN 0
  ELSE LET idx == CHOOSE r \in rows : TRUE
       IN  PointsOf(idx) + SumPoints(rows \ {idx})

RECURSIVE SumSquaredPoints(_)
SumSquaredPoints(rows) ==
  IF rows = {} THEN 0
  ELSE LET idx == CHOOSE r \in rows : TRUE
       IN  PointsOf(idx) * PointsOf(idx) + SumSquaredPoints(rows \ {idx})

\* C14: getAggregatedStats(startDate, endDate) answers null exactly when no
\* record was captured from startDate to endDate, both ends included, and
\* otherwise its statistics are over exactly the records of that closed
\* interval: their number, their largest and their smallest score.
C14_StatsOverClosedRangeOrNull ==
  \A q \in StatsQueries :
    /\ q.answer = <<>> <=> InRange(q) = {}
    /\ q.answer # <<>> =>
         /\ q.answer[1].period.days = Cardinality(InRange(q))
         /\ \E idx \in InRange(q) : q.answer[1].statistics.maximum = FromInt(PointsOf(idx))
         /\ \E idx \in InRange(q) : q.answer[1].statistics.minimum = FromInt(PointsOf(idx))
         /\ \A idx \in InRange(q) :
              /\ FLe(FromInt(PointsOf(idx)), q.answer[1].statistics.maximum)
              /\ FLe(q.answer[1].statistics.minimum, FromInt(PointsOf(idx)))

\* a range that starts on the capture time of one record and ends on the
\* capture time of another has counted both and left a later record out
C14_RecordsAtBothEndsCounted ==
  \E q \in StatsQueries :
    /\ q.rows >= 3
    /\ q.start < q.end
    /\ \E first, last, other \in 1..q.rows :
         /\ sentimentHistory[first].createdAt = q.start
         /\ sentimentHistory[last].createdAt = q.end
         /\ sentimentHistory[other].createdAt > q.end
    /\ q.answer # <<>>
    /\ q.answer[1].period.days = 2

\* the mean sum / count rounded to the nearest integer, a half going up
RoundedMean(sum, count) == (2 * sum + count) \div (2 * count)

StatusesIn(rows) == {sentimentHistory[idx].status : idx \in rows}

RECURSIVE SumCounts(_, _)
SumCounts(distribution, statuses) ==
  IF statuses = {} THEN 0
  ELSE LET status == CHOOSE st \in statuses : TRUE
       IN  distribution[status] + SumCounts(distribution, statuses \ {status})

\* C15: for a range holding records, the average is the mean of their scores
\* rounded to the nearest integer, the maximum and the minimum are their
\* largest and smallest score, minimum <= average <= maximum, and the
\* distribution has exactly the statuses of these records as keys, each with
\* the number of records of that status, the counts adding up to the number
\* of records.
C15_AverageExtremesAndDistribution ==
  \A q \in StatsQueries : q.answer # <<>> =>
    /\ q.answer[1].statistics.average
         = RoundedMean(SumPoints(InRange(q)), Cardinality(InRange(q)))
    /\ \E idx \in InRange(q) : q.answer[1].statistics.maximum = FromInt(PointsOf(idx))
    /\ \E idx \in InRange(q) : q.answer[1].statistics.minimum = FromInt(PointsOf(idx))
    /\ \A idx \in InRange(q) :
         /\ FLe(FromInt(PointsOf(idx)), q.answer[1].statistics.maximum)
         /\ FLe(q.answer[1].statistics.minimum, FromInt(PointsOf(idx)))
    /\ FLe(q.answer[1].statistics.minimum, FromInt(q.answer[1].statistics.average))
    /\ FLe(FromInt(q.answer[1].statistics.average), q.answer[1].statistics.maximum)
    /\ DOMAIN q.answer[1].distribution = StatusesIn(InRange(q))
    /\ \A status \in StatusesIn(InRange(q)) :
         q.answer[1].distribution[status]
           = Cardinality({idx \in InRange(q) : sentimentHistory[idx].status = status})
    /\ SumCounts(q.answer[1].distribution, StatusesIn(InRange(q)))
         = Cardinality(InRange(q))

\* the statistics of three records of two statuses whose mean is not an
\* integer: scores 40, 60 and 60, average 53
C15_ThreeRecordsTwoStatuses ==
  \E q \in StatsQueries :
    /\ q.answer # <<>>
    /\ q.answer[1].period.days = 3
    /\ Cardinality(DOMAIN q.answer[1].distribution) = 2
    /\ q.answer[1].statistics.minimum = FromInt(40)
    /\ q.answer[1].statistics.maximum = FromInt(60)
    /\ q.answer[1].statistics.average = 53

\* the scores of the records of a range, as a bag: score -> number of records
ScoreCount(rows, points) == Cardinality({idx \in rows : PointsOf(idx) = points})

\* count^2 times the population variance of the scores of the rows
ScaledVariance(rows) ==
  Cardinality(rows) * SumSquaredPoints(rows) - SumPoints(rows) * SumPoints(rows)

Hundredths(x) == MathRound(FMul(x, FromInt(100)))

\* v hundredths is within a hundredth of the population standard deviation:
\* (v - 1)^2 <= 10000 * variance <= (v + 1)^2, times count^2
WithinAHundredth(v, rows) ==
  /\ v >= 0
  /\ (IF v = 0 THEN 0 ELSE (v - 1) * (v - 1)) * Cardinality(rows) * Cardinality(rows)
       <= 10000 * ScaledVariance(rows)
  /\ 10000 * ScaledVariance(rows)
       <= (v + 1) * (v + 1) * Cardinality(rows) * Cardinality(rows)

\* C16: the volatility of a range holding records is the population standard
\* deviation sqrt(mean((score_i - mean)^2)) of their scores, the squares
\* divided by the number of scores: exactly 0 when all the scores are equal
\* (so for 50, 50, 50 and for a single score), exactly 10 for the scores 40
\* and 60, and within a hundredth of the exact value otherwise.
C16_VolatilityIsPopulationDeviation ==
  \A q \in StatsQueries : q.answer # <<>> =>
    /\ WithinAHundredth(Hundredths(q.answer[1].statistics.volatility), InRange(q))
    /\ ScaledVariance(InRange(q)) = 0 => q.answer[1].statistics.volatility = FZero
    /\ (/\ Cardinality(InRange(q)) = 2
        /\ ScoreCount(InRange(q), 40) = 1
        /\ ScoreCount(InRange(q), 60) = 1)
         => q.answer[1].statistics.volatility = FromInt(10)

\* the volatility of the scores 40 and 60 was reported
C16_VolatilityOfFortyAndSixty ==
  \E q \in StatsQueries :
    /\ q.answer # <<>>
    /\ Cardinality(InRange(q)) = 2
    /\ ScoreCount(InRange(q), 40) = 1
    /\ ScoreCount(InRange(q), 60) = 1
    /\ q.answer[1].statistics.volatility = FromInt(10)

\* --------------------------------------------------------------------------
\* Normalization.  The reference is exact: the raw value is q.tenths / 10.
\* --------------------------------------------------------------------------
NormalizeCalls == {q \in {queries[i] : i \in 1..Len(queries)} : q.op = "normalize"}

Millionths(x) == MathRound(FMul(x, FromInt(1000000)))

\* |x - (tenths / 10 - min) / (max - min)| <= one millionth
IsScaled(x, tenths, min, max) ==
  /\ (Millionths(x) - 1) * 10 * (max - min) <= 1000000 * (tenths - 10 * min)
  /\ 1000000 * (tenths - 10 * min) <= (Millionths(x) + 1) * 10 * (max - min)

\* C19: normalize(value, min, max) with min < max returns the missing
\* sentinel -1 when value is the missing marker -1, and otherwise
\* clamp((value - min) / (max - min), 0, 1): 0 at or below min, 1 at or above
\* max, the linear value in between; so the result is in [0, 1] or is -1.
C19_NormalizeIsClampedScalingOrSentinel ==
  \A q \in NormalizeCalls :
    /\ q.tenths = -10 => q.answer = MinusOne
    /\ q.tenths # -10 =>
         /\ q.tenths <= 10 * q.min => q.answer = FZero
         /\ q.tenths >= 10 * q.max => q.answer = FromInt(1)
         /\ (10 * q.min < q.tenths /\ q.tenths < 10 * q.max)
              => IsScaled(q.answer, q.tenths, q.min, q.max)
    /\ \/ q.answer = MinusOne
       \/ FLe(FZero, q.answer) /\ FLe(q.answer, FromInt(1))

\* normalize(15, 10, 20) = 0.5
C19_MidpointNormalized ==
  \E q \in NormalizeCalls :
    /\ q.tenths = 150 /\ q.min = 10 /\ q.max = 20
    /\ q.answer = Dec(1, 2)

\* --------------------------------------------------------------------------
\* Collection runs.  market_data is only appended to, so the row a run saved
\* is row number q.rows of marketData.
\* --------------------------------------------------------------------------
CollectCalls == {q \in {queries[i] : i \in 1..Len(queries)} : q.op = "collect"}

\* the column holds the value saved: the value rounded to the four decimals
\* of the column, or the double as it was where the database keeps it
CarriesValue(cell, value, database) ==
  /\ cell # <<>>
  /\ IF isNaN(value) THEN isNaN(columnValue(cell))
     ELSE /\ ~isNaN(columnValue(cell))
          /\ cell[1] = TenThousandths(value)
          /\ columnValue(cell) = (IF database = "sqlite" THEN value
                                  ELSE Dec(TenThousandths(value), 10000))

\* C18: a run of executeDataCollection returns, whether or not the fetcher
\* or the normalizer failed, and has saved exactly one row, whose isValid is
\* the success flag returned.  A run whose fetcher and normalizer yielded a
\* value that was saved has saved a valid row with the normalized value and
\* returns success with the parsed data; any other run has saved an invalid
\* row with an error message and returns failure with that message.
C18_OneRecordAgreeingWithResult ==
  \A q \in CollectCalls :
    /\ q.result # <<>>
    /\ q.rows = q.rowsBefore + 1
    /\ marketData[q.rows].dataType = q.dataType
    /\ marketData[q.rows].isValid = q.result[1].success
    /\ IF q.normalized # <<>> /\ ~q.saveThrew
       THEN /\ q.result[1].success
            /\ q.result[1].data # <<>>
            /\ marketData[q.rows].isValid
            /\ CarriesValue(marketData[q.rows].normalizedValue, q.normalized[1],
                            environment.database)
       ELSE /\ ~q.result[1].success
            /\ q.result[1].error # <<>>
            /\ ~marketData[q.rows].isValid
            /\ marketData[q.rows].errorMessage = q.result[1].error

\* a run whose fetcher failed and whose save of the error row threw has
\* rejected and left no row, and a run whose normalizer returned NaN has
\* returned success and left a valid row whose column is NULL
C18_RejectedRunAndRowWithoutValue ==
  \E rejected, succeeded \in CollectCalls :
    /\ rejected.normalized = <<>>
    /\ rejected.errorSaveThrew
    /\ rejected.result = <<>>
    /\ rejected.rows = rejected.rowsBefore
    /\ succeeded.normalized # <<>>
    /\ isNaN(succeeded.normalized[1])
    /\ succeeded.result # <<>>
    /\ succeeded.result[1].success
    /\ marketData[succeeded.rows].isValid
    /\ marketData[succeeded.rows].normalizedValue = <<>>

\* a stored value from 0 to 1, or the missing sentinel -1
NormalizedOrSentinel(cell) ==
  /\ cell # <<>>
  /\ ~isNaN(columnValue(cell))
  /\ cell[1] = -10000 \/ (0 <= cell[1] /\ cell[1] <= 10000)
  /\ \/ columnValue(cell) = MinusOne
     \/ FLe(FZero, columnValue(cell)) /\ FLe(columnValue(cell), FromInt(1))

\* the row carries the missing sentinel
CarriesSentinel(row) ==
  row.normalizedValue # <<>> /\ FEq(columnValue(row.normalizedValue), MinusOne)

\* the types whose fresh valid rows, when a call queried them, all carried -1
SentinelTypes(c) ==
  {t \in IndicatorTypes :
     /\ QualifiedFor(c, t) # {}
     /\ \A idx \in QualifiedFor(c, t) : CarriesSentinel(RowsRead(c, t)[idx])}

\* the indicators of a result that are not -1
CountedTypes(indicators) == {t \in IndicatorTypes : ~FEq(indicators[t], MinusOne)}

\* C20: every row the breadth, volume and VIX collectors save as valid has a
\* normalized value from 0 to 1 or the missing sentinel -1, and a type whose
\* valid rows carry -1 is a missing indicator of the calculation: its
\* indicator is -1, it is not counted, and with no other indicator the
\* result is no_data.
C20_ValidRowsNormalizedOrSentinel ==
  /\ \A idx \in 1..Len(marketData) :
       marketData[idx].isValid => NormalizedOrSentinel(marketData[idx].normalizedValue)
  /\ \A c \in Calls :
       /\ \A t \in SentinelTypes(c) : c.result.indicators[t] = MinusOne
       /\ c.result.calculationDetails.validIndicatorCount
            = Cardinality(CountedTypes(c.result.indicators))
       /\ CountedTypes(c.result.indicators) \cap SentinelTypes(c) = {}
       /\ CountedTypes(c.result.indicators) = {} => c.result.status = "no_data"

\* the VIX collector, given an index history of 30 prices one of which is
\* not finite, has returned success and saved a valid row whose normalized
\* value is NULL (SQLite) or NaN (PostgreSQL)
C20_ValidRowNotANumber ==
  \E q \in CollectCalls :
    /\ q.dataType = "vix"
    /\ q.normalized # <<>>
    /\ isNaN(q.normalized[1])
    /\ q.result # <<>>
    /\ q.result[1].success
    /\ marketData[q.rows].isValid
    /\ \/ marketData[q.rows].normalizedValue = <<>>
       \/ isNaN(columnValue(marketData[q.rows].normalizedValue))

\* --------------------------------------------------------------------------
\* The current-sentiment query
\* --------------------------------------------------------------------------
CurrentQueries == {q \in {queries[i] : i \in 1..Len(queries)} : q.op = "current"}

\* C17: when the primary aggregation has failed, the current-sentiment query
\* answers with a result calculated from the indicators read from their
\* stores, with the weights DEFAULT_WEIGHTS, a status that is the class of
\* its score and calculationDetails.method = "fallback"; the failure reaches
\* the API only when reading the stores has failed too.
C17_FallbackWhenPrimaryFails ==
  \A q \in CurrentQueries :
    /\ (q.primaryThrew /\ ~q.storesThrew) =>
         /\ q.answer # <<>>
         /\ "method" \in DOMAIN q.answer[1].calculationDetails
         /\ q.answer[1].calculationDetails.method = "fallback"
         /\ q.answer[1].calculationDetails.weights = DEFAULT_WEIGHTS
         /\ FLe(FromInt(MIN_SCORE), q.answer[1].score)
              => q.answer[1].status = ThresholdClass(IntegerScore(q.answer[1]))
    /\ q.answer = <<>> => q.primaryThrew /\ q.storesThrew

\* the primary aggregation failed over a store holding a fresh valid reading
\* while the stores could be read, and the query was answered with the error
C17_FailureReachedApi ==
  \E q \in CurrentQueries :
    /\ q.primaryThrew
    /\ ~q.storesThrew
    /\ \E t \in IndicatorTypes : Qualifying(StoreAt(q), t, q.at) # {}
    /\ q.answer = <<>>

\* --------------------------------------------------------------------------
\* The calculation among concurrent collection writes
\* --------------------------------------------------------------------------
\* the calls of calculateCurrentSentiment that have returned
\* market_data is append-only: its states so far are its prefixes
StoreStates == {SubSeq(marketData, 1, rows) : rows \in 0..Len(marketData)}

\* latestData is what the five queries return on one state of the store
ReadFromOneState(call) ==
  \E store \in StoreStates : call.latestData \in getLatestDataByTypes(store, call.startedAt - 60)

\* a query of the call returned a row saved after the call was entered
SawStoreGrow(call) ==
  \E dataType \in DOMAIN call.latestData : call.latestData[dataType] > call.rows

\* C21: the per-type readings a returned calculation combined are the latest
\* fresh valid readings of one single state of the market data store, also
\* when collection writes and other calculations ran in between.
C21_ReadingsFromOneStoreState ==
  \A call \in Calls : ReadFromOneState(call)

\* a calculation returned a row saved after it was entered, and no state of
\* the store has the rows it combined as its latest
C21_MixedReadingsReturned ==
  \E call \in Calls :
    /\ SawStoreGrow(call)
    /\ ~ReadFromOneState(call)
    /\ call.result.calculationDetails.validIndicatorCount = 1

\* --------------------------------------------------------------------------
\* Readings outside the unit interval
\* --------------------------------------------------------------------------
\* the indicators whose value lies in [0, 1]
InRangeTypes(indicators) ==
  {t \in IndicatorTypes :
     ~isNaN(indicators[t]) /\ TenThousandths(indicators[t]) \in 0..10000}

\* the indicators that are neither in [0, 1] nor the sentinel -1
OutOfRangeTypes(indicators) == ValidTypes(indicators) \ InRangeTypes(indicators)

\* C22: a normalized reading that is negative or outside [0, 1] is excluded
\* from validIndicatorCount and from totalWeight exactly like the sentinel
\* -1: the count is the number of indicators in [0, 1] and the total weight
\* is the sum of their weights.
C22_OutOfRangeReadingsExcluded ==
  \A r \in Results :
    /\ r.calculationDetails.validIndicatorCount = Cardinality(InRangeTypes(r.indicators))
    /\ MathRound(FMul(r.calculationDetails.totalWeight, FromInt(20)))
         = SumOver(InRangeTypes(r.indicators), WeightTwentieths)

\* a result returned with a reading outside [0, 1] counted as valid
C22_OutOfRangeReadingCounted ==
  \E r \in Results :
    /\ OutOfRangeTypes(r.indicators) # {}
    /\ r.calculationDetails.validIndicatorCount = Cardinality(ValidTypes(r.indicators))
    /\ r.score # MinusOne

\* --------------------------------------------------------------------------
\* The helper validateIndicators and the weighting loop
\* --------------------------------------------------------------------------
\* the indicator maps both computations have been applied to
ValidateCalls == {q \in {queries[i] : i \in 1..Len(queries)} : q.op = "validate"}

\* the types whose stored value is a reading, not the sentinel
ReadingTypes(stored) == {t \in IndicatorTypes : stored[t] # -10000}

\* C23: over the weight table of the service, whose weights sum to 1,
\* validateIndicators yields the validCount, totalWeight and weightedSum that
\* the weighting loop of calculateCurrentSentiment computes, for every map of
\* the five indicators with values in [0, 1] or -1: the count is the number of
\* readings, the total weight the sum of their weights, and it is exactly 1
\* when all five are readings.
C23_ValidateIndicatorsAgreesWithAggregator ==
  \A q \in ValidateCalls :
    /\ q.validated.validCount = q.accumulated.validIndicatorCount
    /\ FEq(q.validated.totalWeight, q.accumulated.totalWeight)
    /\ FEq(q.validated.weightedSum, q.accumulated.weightedSum)
    /\ q.validated.validCount = Cardinality(ReadingTypes(q.stored))
    /\ MathRound(FMul(q.validated.totalWeight, FromInt(20)))
         = SumOver(ReadingTypes(q.stored), WeightTwentieths)
    /\ ReadingTypes(q.stored) = IndicatorTypes => FEq(q.validated.totalWeight, FromInt(1))

\* applied to a map with a sentinel among readings, and to a map of five
\* readings
C23_SentinelAmongReadingsValidated ==
  \E q \in ValidateCalls :
    /\ q.stored.vix = -10000
    /\ q.stored.breadth = 6000
    /\ q.validated.validCount = 4
    /\ ~FIsZero(q.validated.weightedSum)

\* --------------------------------------------------------------------------
\* The composite index and its normalization
\* --------------------------------------------------------------------------
VIXCalls == {q \in {queries[i] : i \in 1..Len(queries)} : q.op = "vix"}

\* 0.6 * shanghaiVIX + 0.4 * shenzhenVIX in tenths of a point, within [10, 50]
CompositeTenths(shanghaiVIX, shenzhenVIX) ==
  MaxOf(100, MinOf(500, 6 * shanghaiVIX + 4 * shenzhenVIX))

\* (vix - 10) / 40 in ten-thousandths, within [0, 1]
NormalizedVIX(vix) == MaxOf(0, MinOf(10000, (vix - 10) * 250))

\* C24: calculateCompositeVIX returns -1 when either input is -1, and
\* otherwise 0.6 * shanghaiVIX + 0.4 * shenzhenVIX limited to [10, 50];
\* normalizeVIXValue maps [10, 50] linearly onto [0, 1], 10 and below to 0,
\* 30 to 0.5, 50 and above to 1.
C24_CompositeClampedAndNormalized ==
  \A q \in VIXCalls :
    /\ q.compositeVIX # <<>> =>
         IF q.shanghaiVIX = -1 \/ q.shenzhenVIX = -1
         THEN FEq(q.compositeVIX[1], MinusOne)
         ELSE /\ FLe(FromInt(10), q.compositeVIX[1])
              /\ FLe(q.compositeVIX[1], FromInt(50))
              /\ MathRound(FMul(q.compositeVIX[1], FromInt(100000)))
                   = CompositeTenths(q.shanghaiVIX, q.shenzhenVIX) * 10000
    /\ q.normalized # <<>> =>
         /\ FLe(FZero, q.normalized[1])
         /\ FLe(q.normalized[1], FromInt(1))
         /\ MathRound(FMul(q.normalized[1], FromInt(1000000)))
              = NormalizedVIX(q.shanghaiVIX) * 100
         /\ q.shanghaiVIX <= 10 => FIsZero(q.normalized[1])
         /\ q.shanghaiVIX = 30 => FEq(q.normalized[1], Dec(5, 10))
         /\ q.shanghaiVIX >= 50 => FEq(q.normalized[1], FromInt(1))

\* the composite of 60 and 60 has been limited to 50, and 60 normalized to 1
C24_LimitsApplied ==
  \E q \in VIXCalls :
    /\ q.shanghaiVIX = 60
    /\ q.shenzhenVIX = 60
    /\ q.compositeVIX # <<>>
    /\ FEq(q.compositeVIX[1], FromInt(50))
    /\ q.normalized # <<>>
    /\ FEq(q.normalized[1], FromInt(1))

\* --------------------------------------------------------------------------
\* The market data summary
\* --------------------------------------------------------------------------
\* the summaries both sources of which have settled
SummaryQueries ==
  {q \in {queries[i] : i \in 1..Len(queries)} : q.op = "summary" /\ q.pending = {}}

\* market_data as the findOne of a source found it
SourceStore(q, dataType) == SubSeq(marketData, 1, q.rowsAt[dataType])

\* the rows of a type, valid and less than an hour old at the call, that
\* were stored when the source was read
FreshRows(q, dataType) == Qualifying(SourceStore(q, dataType), dataType, q.at)

\* the source of a type is unavailable to the query
Unavailable(q, dataType, threw) == threw \/ FreshRows(q, dataType) = {}

\* C25: getMarketDataSummary always resolves: a source whose retrieval threw
\* or that has no fresh valid row is null in its field, an available source
\* is returned from one of its newest fresh valid rows whatever happened to
\* the other, lastUpdated is the time of the call, and margin, foreign and
\* vix are null.
C25_SummarySurvivesUnavailableSources ==
  \A q \in SummaryQueries :
    /\ q.answer # <<>>
    /\ q.answer[1].lastUpdated = <<q.at>>
    /\ q.answer[1].margin = <<>>
    /\ q.answer[1].foreign = <<>>
    /\ q.answer[1].vix = <<>>
    /\ (q.answer[1].breadth = <<>>) = Unavailable(q, "breadth", q.breadthThrew)
    /\ (q.answer[1].volume = <<>>) = Unavailable(q, "volume", q.volumeThrew)
    /\ q.answer[1].breadth # <<>> =>
         /\ q.answer[1].breadth[1].data.parsed \in NewestOf(marketData, FreshRows(q, "breadth"))
         /\ q.answer[1].breadth[1].timestamp = q.at
    /\ q.answer[1].volume # <<>> =>
         /\ q.answer[1].volume[1].data.currentVolume \in NewestOf(marketData, FreshRows(q, "volume"))
         /\ q.answer[1].volume[1].timestamp = q.at

\* a summary returned the volume while the retrieval of the breadth threw
\* although a fresh breadth row was stored
C25_BreadthFailedVolumeReturned ==
  \E q \in SummaryQueries :
    /\ q.breadthThrew
    /\ FreshRows(q, "breadth") # {}
    /\ q.answer # <<>>
    /\ q.answer[1].breadth = <<>>
    /\ q.answer[1].volume # <<>>

\* --------------------------------------------------------------------------
\* The scheduled job and the trading sessions
\* --------------------------------------------------------------------------
JobRuns == {q \in {queries[i] : i \in 1..Len(queries)} : q.op = "job"}

\* Monday to Friday, 09:30 to 11:30 and 13:00 to 15:00 of Asia/Shanghai, the
\* zone of the exchange and of the schedule, bounds included
InSession(nowTime) ==
  /\ (nowTime \div 1440) % 7 \in 1..5
  /\ nowTime % 1440 \in (570..690) \cup (780..900)

\* C26: fired on a weekend or outside 09:30-11:30 and 13:00-15:00 (the four
\* bounds belong to the sessions) the job calculates nothing and appends no
\* history row; fired inside a session it enters the calculation, whose
\* result it appends.
C26_JobRunsOnlyInTradingTime ==
  /\ \A q \in JobRuns : q.entered <=> InSession(q.at)
  /\ \A row \in 1..Len(sentimentHistory) :
       \E q \in JobRuns : q.entered /\ q.at <= sentimentHistory[row].createdAt

\* the process reads its clock in UTC: the job fired at 09:30 of a Monday in
\* Asia/Shanghai finds 01:30 and returns without calculating
C26_SkippedInsideSession ==
  \E q \in JobRuns : /\ q.at = 1440 + 570
                      /\ q.localTime = 1440 + 90
                      /\ ~q.entered
                      /\ Len(sentimentHistory) = 0

\* --------------------------------------------------------------------------
\* The history row of a scheduled run
\* --------------------------------------------------------------------------
\* the result of the run a step has recorded, and the row the step appended
LastResult(calls) == calls[Len(calls)].result
LastStart(calls) == calls[Len(calls)].startedAt
LastRow(history) == history[Len(history)]

\* the row holds the result: score and status, the two texts parsing back to
\* the values they were written from, and the date at nowTime where the
\* process runs
RowStoresResult(row, result, nowTime) ==
  /\ row.score = (IF isNaN(result.score) THEN NaN ELSE 100 * IntegerScore(result))
  /\ row.status = result.status
  /\ JSONparse(row.indicators) = jsNumbers(result.indicators)
  /\ JSONparse(row.calculationDetails) = jsCalculationDetails(result.calculationDetails)
  /\ row.tradingDate = (nowTime - environment.zoneLag) \div 1440

\* C27: the row appended by a scheduled run has the score and the status of
\* the result of the run, indicators and calculationDetails texts that parse
\* back to the indicators and the calculationDetails of the result, and the
\* calendar date of the run as tradingDate.
C27_RowParsesBackToResult ==
  [][RunOf(returned, returned') = <<"saved">> =>
       RowStoresResult(LastRow(sentimentHistory'), LastResult(returned'), LastStart(returned'))]_vars

\* the timestamp of an entry of the dataFreshness parsed from a row
ParsedTimestamp(row, dataType) ==
  JSONparse(row.calculationDetails).members.dataFreshness.members[dataType].members.timestamp

\* a run that used a stored reading has saved its row, of which the score,
\* the status and the indicators are those of the result, and the
\* timestamp of the reading, a Date in the result, parses back as a string
C27_RowOfScoredRunSaved ==
  \E i \in 1..Len(returned) :
    /\ returned[i].trigger = "saved"
    /\ FLe(FZero, returned[i].result.score)
    /\ \E row \in 1..Len(sentimentHistory) :
         /\ sentimentHistory[row].createdAt = returned[i].at
         /\ JSONparse(sentimentHistory[row].indicators) = jsNumbers(returned[i].result.indicators)
         /\ sentimentHistory[row].status = returned[i].result.status
         /\ sentimentHistory[row].score = 100 * IntegerScore(returned[i].result)
         /\ \E t \in DOMAIN returned[i].result.calculationDetails.dataFreshness :
              ParsedTimestamp(sentimentHistory[row], t)
                = jsString(returned[i].result.calculationDetails.dataFreshness[t].timestamp)

\* --------------------------------------------------------------------------
\* Who writes to the two stores
\* --------------------------------------------------------------------------
\* the step has recorded a calculation made on demand
OnDemandStep(before, after) ==
  Len(after) = Len(before) + 1 /\ after[Len(after)].trigger = "demand"

\* C28: a calculation on demand leaves market_data and sentiment_history as
\* they were; sentiment_history changes only in the step that ends the save
\* of a scheduled run, and market_data only in a step that is no step of a
\* calculation and appends one collected row.
C28_OnDemandCalculationReadOnly ==
  [][/\ OnDemandStep(returned, returned') =>
          marketData' = marketData /\ sentimentHistory' = sentimentHistory
     /\ sentimentHistory' # sentimentHistory => RunOf(returned, returned') = <<"saved">>
     /\ marketData' # marketData =>
          /\ returned' = returned
          /\ inFlight' = inFlight
          /\ sentimentHistory' = sentimentHistory
          /\ Len(marketData') = Len(marketData) + 1
          /\ SubSeq(marketData', 1, Len(marketData)) = marketData]_vars

\* a calculation was made on demand after a collection and a saved run, and
\* both stores hold what those wrote
C28_OnDemandAfterSavedRun ==
  \E run, call \in 1..Len(returned) :
    /\ run < call
    /\ returned[run].trigger = "saved"
    /\ returned[call].trigger = "demand"
    /\ returned[call].rows = Len(marketData)
    /\ Len(marketData) >= 1
    /\ Len(sentimentHistory) = 1

\* --------------------------------------------------------------------------
\* The stock-count cache
\* --------------------------------------------------------------------------
\* the calls of getRealStockCount that return in the step
ReturningStockCalls(before, after) ==
  {call \in 1..Len(after) :
     /\ after[call].fn = "getRealStockCount"
     /\ after[call].result # <<>>
     /\ call <= Len(before) => before[call].result = <<>>}

\* the entry the call found for its market was less than 24 hours old
FoundFresh(call) == call.cached # <<>> /\ call.now - call.cached[1].timestamp < 1440

\* C29: a call of getRealStockCount that finds an entry of its market less
\* than 24 hours old returns the count of the entry without any request and
\* leaves the cache alone; any other call issues requests, and at its return
\* the cache holds for the market exactly the count returned with the time
\* the call was entered, the count being the default of the market when the
\* fetch failed.
C29_CacheValidForADay ==
  [][\A call \in ReturningStockCalls(inFlight, inFlight') :
       IF FoundFresh(inFlight'[call])
       THEN /\ inFlight'[call].requests = 0
            /\ inFlight'[call].result = <<inFlight'[call].cached[1].count>>
            /\ stockCountCache' = stockCountCache
       ELSE /\ inFlight'[call].requests >= 1
            /\ cacheGet(stockCountCache', inFlight'[call].market)
                 = <<[count     |-> inFlight'[call].result[1],
                      timestamp |-> inFlight'[call].now]>>
            /\ inFlight'[call].threw =>
                 inFlight'[call].result[1]
                   = (IF inFlight'[call].market = "sh_a" THEN 2282 ELSE 2870)]_vars

\* a fetch of a market failed and twelve hours later a call of the same
\* market returned the cached default without a request
C29_CachedDefaultReturned ==
  \E first, second \in 1..Len(inFlight) :
    /\ inFlight[first].market = inFlight[second].market
    /\ inFlight[first].threw
    /\ inFlight[first].result # <<>>
    /\ inFlight[second].now = inFlight[first].now + 720
    /\ inFlight[second].requests = 0
    /\ inFlight[second].result = inFlight[first].result

\* --------------------------------------------------------------------------
\* The page loops
\* --------------------------------------------------------------------------
PageCalls == {inFlight[call] : call \in 1..Len(inFlight)}

\* C30: each page loop issues at most 100 requests whatever the upstream
\* answers: while it runs every page so far was full, and it has stopped at
\* the first page that was empty, malformed or short, at an exception, or
\* after the hundredth full page.
C30_PageLoopsBounded ==
  \A call \in PageCalls :
    /\ call.requests <= 100
    /\ call.result = <<>> =>
         /\ call.requests < 100
         /\ call.totalCount = 100 * call.requests
    /\ call.result # <<>> =>
         \/ call.requests = 0
         \/ call.threw /\ call.totalCount = 100 * (call.requests - 1)
         \/ ~call.threw /\ call.totalCount \in {100 * (call.requests - 1),
                                                100 * (call.requests - 1) + 1}
         \/ ~call.threw /\ call.requests = 100 /\ call.totalCount = 100 * 100

\* a loop was stopped by the limit after a hundred full pages
C30_StoppedAtHundredthPage ==
  \E call \in PageCalls :
    /\ call.requests = 100
    /\ call.result = <<100 * 100>>

====
